---------------------------- MODULE Spec2Model ----------------------------
(***************************************************************************)
(* A model of the two conversion scripts of the pattern guide:             *)
(*   convert_html_to_md.py   (pipeline A: HTML -> Markdown)                *)
(*   scripts/md_to_html.py   (pipeline B: Markdown files -> one HTML page) *)
(*                                                                         *)
(* Text is modelled as TLA+ strings, i.e. sequences of characters, and the *)
(* scripts' string methods and regular expressions are computed character  *)
(* by character.  Python's None is the empty tuple <<>> and a present      *)
(* value v is <<v>> wherever a variable may hold either.                   *)
(***************************************************************************)
EXTENDS Integers, Sequences, FiniteSets, TLC

VARIABLES
    pc,               \* position of the running script
    section_name,     \* categorize_pattern: its argument
    category,         \* categorize_pattern: its result
    pattern_name,     \* extract_keywords: its argument
    description,      \* extract_keywords: its argument
    keywords,         \* extract_keywords: its result
    lines,            \* parse_patterns: content.split('\n')
    i,                \* parse_patterns: index of the next line (1-based)
    sections,         \* parse_patterns: the dict, in insertion order
    heap,             \* parse_patterns: the pattern dicts created so far
    current_section,  \* parse_patterns: <<>> or <<name>>
    current_pattern,  \* parse_patterns: 0 (None) or the index in heap
    html_content,     \* pipeline A: the HTML text read
    patterns,         \* pipeline A: the extracted section list
    markdown,         \* pipeline A: <<>> or <<text>> generate_markdown returned
    parsed,           \* round trip: parse_patterns of the Markdown body
    pattern_files,    \* pipeline B: per input file <<>> (missing) or <<text>>
    template,         \* pipeline B: <<>> (unreadable) or <<text>>
    timestamp,        \* pipeline B: what datetime.now() formats to
    output,           \* pipeline B: the texts written to docs/index.html
    md_index,         \* pipeline B: main's position in pattern_files
    handled,          \* pipeline B: what main did with each file so far
    all_sections,     \* pipeline B: main's list of parsed files
    merged_sections,  \* pipeline B: merge_sections' result
    total_patterns    \* pipeline B: generate_html's return value

vars == << pc, section_name, category, pattern_name, description, keywords,
           lines, i, sections, heap, current_section, current_pattern,
           html_content, patterns, markdown, parsed,
           pattern_files, template, timestamp, output, md_index, handled,
           all_sections, merged_sections, total_patterns >>

catVars   == << section_name, category >>
kwVars    == << pattern_name, description, keywords >>
parseVars == << lines, i, sections, heap, current_section, current_pattern >>
aVars     == << html_content, patterns, markdown, parsed >>
bVars     == << pattern_files, template, timestamp, output, md_index, handled,
                all_sections, merged_sections, total_patterns >>

None == << >>
Some(v) == << v >>

-----------------------------------------------------------------------------
(* Characters and the string methods the scripts use.                      *)

\* A TLA+ string literal cannot hold the backquote (code point 96): the model
\* writes it as "~" throughout, and the tilde itself (code point 126) occurs in
\* no modelled text.
BackQuote == "~"

\* The characters of code points 32..125, in order.
Printable ==
    " !\"#$%&'()*+,-./0123456789:;<=>?@ABCDEFGHIJKLMNOPQRSTUVWXYZ[\\]^_~abcdefghijklmnopqrstuvwxyz{|}"
UpperCase == "ABCDEFGHIJKLMNOPQRSTUVWXYZ"
LowerCase == "abcdefghijklmnopqrstuvwxyz"
Digits    == "0123456789"

At(s, p) == SubSeq(s, p, p)
CharsOf(s) == { At(s, p) : p \in 1..Len(s) }
IndexIn(s, c) == CHOOSE p \in 1..Len(s) : At(s, p) = c

\* ord(c): the code point of a character.
Ord(c) ==
    CASE c = "\t" -> 9
      [] c = "\n" -> 10
      [] c = "\f" -> 12
      [] c = "\r" -> 13
      [] OTHER    -> 31 + IndexIn(Printable, c)

\* str.isspace() of one character.
Whitespace == {" ", "\t", "\n", "\r", "\f"}

\* \w of one character.
WordChars == CharsOf(UpperCase) \cup CharsOf(LowerCase) \cup CharsOf(Digits) \cup {"_"}

LowerChar(c) ==
    IF c \in CharsOf(UpperCase) THEN At(LowerCase, IndexIn(UpperCase, c)) ELSE c

\* Character classes: [cs] and [^cs].
In(cs)    == [neg |-> FALSE, cs |-> cs]
NotIn(cs) == [neg |-> TRUE, cs |-> cs]
InClass(cls, c) == (c \in cls.cs) # cls.neg

\* The operators below that scan a text split their range in halves, so
\* that the depth of a scan grows with the logarithm of the text's length.

\* str.lower()
RECURSIVE Lower(_)
Lower(s) ==
    IF Len(s) = 0 THEN ""
    ELSE IF Len(s) = 1 THEN LowerChar(s)
    ELSE LET h == Len(s) \div 2 IN
         Lower(SubSeq(s, 1, h)) \o Lower(SubSeq(s, h + 1, Len(s)))

\* s[p-1:].startswith(t), p 1-based
HasAt(s, p, t) == p + Len(t) - 1 <= Len(s) /\ SubSeq(s, p, p + Len(t) - 1) = t

\* str.startswith
StartsWith(s, t) == HasAt(s, 1, t)

\* s[n:]
Drop(s, n) == SubSeq(s, n + 1, Len(s))

\* The first position in lo..hi where t occurs in s; 0 when there is none.
RECURSIVE FirstAt(_, _, _, _)
FirstAt(s, t, lo, hi) ==
    IF lo > hi THEN 0
    ELSE IF lo = hi THEN (IF HasAt(s, lo, t) THEN lo ELSE 0)
    ELSE LET mid == (lo + hi) \div 2
             left == FirstAt(s, t, lo, mid)
         IN  IF left > 0 THEN left ELSE FirstAt(s, t, mid + 1, hi)

\* str.find from position p (1-based); 0 when absent.
Find(s, t, p) == FirstAt(s, t, p, Len(s) - Len(t) + 1)

\* t in s
Contains(s, t) == Find(s, t, 1) > 0

\* The first, and the last, position in lo..hi of a character of s outside
\* cls; 0 when there is none.
RECURSIVE FirstOutside(_, _, _, _)
FirstOutside(cls, s, lo, hi) ==
    IF lo > hi THEN 0
    ELSE IF lo = hi THEN (IF InClass(cls, At(s, lo)) THEN 0 ELSE lo)
    ELSE LET mid == (lo + hi) \div 2
             left == FirstOutside(cls, s, lo, mid)
         IN  IF left > 0 THEN left ELSE FirstOutside(cls, s, mid + 1, hi)

RECURSIVE LastOutside(_, _, _, _)
LastOutside(cls, s, lo, hi) ==
    IF lo > hi THEN 0
    ELSE IF lo = hi THEN (IF InClass(cls, At(s, lo)) THEN 0 ELSE lo)
    ELSE LET mid == (lo + hi) \div 2
             right == LastOutside(cls, s, mid + 1, hi)
         IN  IF right > 0 THEN right ELSE LastOutside(cls, s, lo, mid)

\* str.strip()
Strip(s) ==
    LET first == FirstOutside(In(Whitespace), s, 1, Len(s))
        last == LastOutside(In(Whitespace), s, 1, Len(s))
    IN  IF first = 0 THEN "" ELSE SubSeq(s, first, last)

\* str.split(sep): never empty, one more piece than occurrences of sep.
RECURSIVE Split(_, _)
Split(s, sep) ==
    LET p == Find(s, sep, 1) IN
    IF p = 0 THEN << s >>
    ELSE << SubSeq(s, 1, p - 1) >> \o Split(Drop(s, p + Len(sep) - 1), sep)

\* sep.join(parts)
RECURSIVE Join(_, _)
Join(parts, sep) ==
    IF parts = << >> THEN ""
    ELSE IF Len(parts) = 1 THEN parts[1]
    ELSE LET h == Len(parts) \div 2 IN
         Join(SubSeq(parts, 1, h), sep) \o sep \o Join(SubSeq(parts, h + 1, Len(parts)), sep)

\* str.replace(old, new): every non-overlapping occurrence, left to right.
RECURSIVE Replace(_, _, _)
Replace(s, old, new) ==
    LET p == Find(s, old, 1) IN
    IF p = 0 THEN s
    ELSE SubSeq(s, 1, p - 1) \o new \o Replace(Drop(s, p + Len(old) - 1), old, new)

\* str(n) of a natural number.
RECURSIVE Str(_)
Str(n) == IF n < 10 THEN At(Digits, n + 1) ELSE Str(n \div 10) \o At(Digits, (n % 10) + 1)

\* a < b as Python compares strings: by code point, a proper prefix first.
RECURSIVE StrLess(_, _)
StrLess(a, b) ==
    IF b = "" THEN FALSE
    ELSE IF a = "" THEN TRUE
    ELSE IF Head(a) = Head(b) THEN StrLess(Tail(a), Tail(b))
    ELSE Ord(Head(a)) < Ord(Head(b))

\* sorted(set) of strings.
RECURSIVE Sorted(_)
Sorted(set) ==
    IF set = {} THEN << >>
    ELSE LET m == CHOOSE x \in set : \A y \in set \ {x} : StrLess(x, y)
         IN  << m >> \o Sorted(set \ {m})

-----------------------------------------------------------------------------
(* Regular expressions, as Python's re matches them: a pattern is a        *)
(* sequence of items tried left to right with backtracking, a greedy       *)
(* repetition trying its longest run first and a lazy one its shortest.    *)

Lit(s)  == [k |-> "lit", s |-> s]                 \* the literal text s
AnyChar == NotIn({})                              \* . under re.DOTALL
\* A repetition of min..max characters of cls; max = -1 sets no upper limit.
Rep(cls, min, max, greedy) ==
    [k |-> "rep", cls |-> cls, min |-> min, max |-> max, greedy |-> greedy]
One(cls)      == Rep(cls, 1, 1, TRUE)             \* [..]
Star(cls)     == Rep(cls, 0, -1, TRUE)    \* [..]*
Plus(cls)     == Rep(cls, 1, -1, TRUE)    \* [..]+
LazyStar(cls) == Rep(cls, 0, -1, FALSE)   \* [..]*?
Open(g)  == [k |-> "open", g |-> g]               \* ( of group g
Close(g) == [k |-> "close", g |-> g]              \* ) of group g
WordBoundary == [k |-> "wb"]                      \* \b
Eos == [k |-> "eos"]                              \* $ without re.MULTILINE
LookAhead(alts) == [k |-> "look", alts |-> alts]  \* (?=a|b|...)

IsWordAt(s, p) == p >= 1 /\ p <= Len(s) /\ At(s, p) \in WordChars

\* How many characters of cls follow from position p of s, at most max.
RunLen(cls, s, p, max) ==
    LET hi == IF max = -1 \/ p + max - 1 > Len(s) THEN Len(s) ELSE p + max - 1
        stop == FirstOutside(cls, s, p, hi)
    IN  IF stop = 0 THEN hi - p + 1 ELSE stop - p

NoMatch == [ok |-> FALSE]
NoGroups == << << 0, 0 >>, << 0, 0 >> >>

RECURSIVE ReMatch(_, _, _, _, _)
RECURSIVE ReTry(_, _, _, _, _, _, _)
\* Items j.. of re matched at position p of s: the first match in priority order.
ReMatch(re, j, s, p, caps) ==
    IF j > Len(re) THEN [ok |-> TRUE, end |-> p, caps |-> caps]
    ELSE LET it == re[j] IN
      CASE it.k = "lit" ->
             IF HasAt(s, p, it.s) THEN ReMatch(re, j + 1, s, p + Len(it.s), caps)
             ELSE NoMatch
        [] it.k = "rep" ->
             LET mx == RunLen(it.cls, s, p, it.max) IN
             IF mx < it.min THEN NoMatch ELSE ReTry(re, j, s, p, caps, it.min, mx)
        [] it.k = "open" ->
             ReMatch(re, j + 1, s, p, [caps EXCEPT ![it.g] = << p, @[2] >>])
        [] it.k = "close" ->
             ReMatch(re, j + 1, s, p, [caps EXCEPT ![it.g] = << @[1], p >>])
        [] it.k = "wb" ->
             IF IsWordAt(s, p - 1) # IsWordAt(s, p)
             THEN ReMatch(re, j + 1, s, p, caps) ELSE NoMatch
        [] it.k = "eos" ->
             IF p = Len(s) + 1 \/ (p = Len(s) /\ At(s, p) = "\n")
             THEN ReMatch(re, j + 1, s, p, caps) ELSE NoMatch
        [] it.k = "look" ->
             IF \E a \in 1..Len(it.alts) : ReMatch(it.alts[a], 1, s, p, caps).ok
             THEN ReMatch(re, j + 1, s, p, caps) ELSE NoMatch

\* The repetition re[j] taking lo..hi characters: the longest first when it
\* is greedy, the shortest first when it is lazy.
ReTry(re, j, s, p, caps, lo, hi) ==
    IF lo = hi THEN ReMatch(re, j + 1, s, p + lo, caps)
    ELSE LET mid == (lo + hi) \div 2 IN
         IF re[j].greedy
         THEN LET upper == ReTry(re, j, s, p, caps, mid + 1, hi) IN
              IF upper.ok THEN upper ELSE ReTry(re, j, s, p, caps, lo, mid)
         ELSE LET lower == ReTry(re, j, s, p, caps, lo, mid) IN
              IF lower.ok THEN lower ELSE ReTry(re, j, s, p, caps, mid + 1, hi)

\* re.match(re, s)
Match(re, s) ==
    LET r == ReMatch(re, 1, s, 1, NoGroups) IN
    IF r.ok THEN [ok |-> TRUE, start |-> 1, end |-> r.end, caps |-> r.caps]
    ELSE NoMatch

\* re.search(re, s) within the start positions lo..hi.
RECURSIVE SearchRange(_, _, _, _)
SearchRange(re, s, lo, hi) ==
    IF lo > hi THEN NoMatch
    ELSE IF lo = hi THEN
        LET r == ReMatch(re, 1, s, lo, NoGroups) IN
        IF r.ok THEN [ok |-> TRUE, start |-> lo, end |-> r.end, caps |-> r.caps]
        ELSE NoMatch
    ELSE LET mid == (lo + hi) \div 2
             left == SearchRange(re, s, lo, mid)
         IN  IF left.ok THEN left ELSE SearchRange(re, s, mid + 1, hi)

SearchFrom(re, s, p) == SearchRange(re, s, p, Len(s) + 1)

\* re.search(re, s)
Search(re, s) == SearchFrom(re, s, 1)

\* m.group(g)
Group(s, m, g) == SubSeq(s, m.caps[g][1], m.caps[g][2] - 1)

\* The matches of re.finditer(re, s) from position p on (none of the patterns
\* used here matches the empty string).
RECURSIVE FindIter(_, _, _)
FindIter(re, s, p) ==
    LET m == SearchFrom(re, s, p) IN
    IF ~m.ok THEN << >> ELSE << m >> \o FindIter(re, s, m.end)

-----------------------------------------------------------------------------
(* scripts/md_to_html.py: categorize_pattern and extract_keywords.         *)

\* A faulty variant of categorize_pattern that tests 'controller' before 'model'.
categorize_pattern_controller_first(name) ==
    LET section_lower == Lower(name) IN
    IF Contains(section_lower, "controller") THEN "controllers"
    ELSE IF Contains(section_lower, "model") THEN "models"
    ELSE IF Contains(section_lower, "frontend") \/ Contains(section_lower, "hotwire")
         THEN "frontend"
    ELSE IF Contains(section_lower, "infrastructure") THEN "infrastructure"
    ELSE "other"

categorize_pattern(name) ==
    LET section_lower == Lower(name) IN
    IF Contains(section_lower, "model") THEN "models"
    ELSE IF Contains(section_lower, "controller") THEN "controllers"
    ELSE IF Contains(section_lower, "frontend") \/ Contains(section_lower, "hotwire")
         THEN "frontend"
    ELSE IF Contains(section_lower, "infrastructure") THEN "infrastructure"
    ELSE "other"

common_words ==
    { "the", "a", "an", "and", "or", "but", "in", "on", "at", "to", "for", "of",
      "with", "by", "from", "as", "is", "are", "was", "were", "be", "been",
      "being", "have", "has", "had", "do", "does", "did", "will", "would",
      "should", "could", "may", "might", "can", "using", "use", "uses", "used" }

\* re.findall(r'\b[a-z_][a-z0-9_]*\b', text): the pattern has no group, so
\* the matches' texts.
KeywordWords(text) ==
    LET word == << WordBoundary,
                  One(In(CharsOf(LowerCase) \cup {"_"})),
                  Star(In(CharsOf(LowerCase) \cup CharsOf(Digits) \cup {"_"})),
                  WordBoundary >>
        ms == FindIter(word, text, 1)
    IN
    [n \in 1..Len(ms) |-> SubSeq(text, ms[n].start, ms[n].end - 1)]

\* [w for w in words if w not in common_words and len(w) > 2]
KeywordFilter(words) ==
    SelectSeq(words, LAMBDA w : w \notin common_words /\ Len(w) > 2)

SeqRange(q) == { q[n] : n \in 1..Len(q) }

\* A faulty variant of extract_keywords that joins the keywords as they occur,
\* neither deduplicated nor sorted.
extract_keywords_in_order(desc, name) ==
    Join(KeywordFilter(KeywordWords(Lower(name \o " " \o desc))), " ")

extract_keywords(desc, name) ==
    LET text == Lower(name \o " " \o desc)
        words == KeywordWords(text)
        kws == KeywordFilter(words)
    IN  Join(Sorted(SeqRange(kws)), " ")

-----------------------------------------------------------------------------
(* Python dicts, in insertion order: a sequence of [name, patterns] entries *)
(* with distinct names.                                                    *)

DictKeys(d) == [n \in 1..Len(d) |-> d[n].name]
DictHas(d, key) == \E n \in 1..Len(d) : d[n].name = key
DictIndex(d, key) == CHOOSE n \in 1..Len(d) : d[n].name = key
DictGet(d, key) == d[DictIndex(d, key)].patterns

\* d[key] = value: an existing key keeps its place, a new one goes last.
DictSet(d, key, value) ==
    IF DictHas(d, key) THEN [d EXCEPT ![DictIndex(d, key)].patterns = value]
    ELSE Append(d, [name |-> key, patterns |-> value])

-----------------------------------------------------------------------------
(* scripts/md_to_html.py: parse_patterns.                                  *)

\* html.escape(s), quote=True
html_escape(s) ==
    Replace(Replace(Replace(Replace(Replace(s,
        "&", "&amp;"), "<", "&lt;"), ">", "&gt;"), "\"", "&quot;"), "'", "&#x27;")

\* r'\[([^\]]+)\]\(([^\)]+)\)'
LinkRe ==
    << Lit("["), Open(1), Plus(NotIn({"]"})), Close(1), Lit("]("),
       Open(2), Plus(NotIn({")"})), Close(2), Lit(")") >>

\* f'<a href="{link_url}" target="_blank">{link_text}</a>'
Anchor(link_url, link_text) ==
    "<a href=\"" \o link_url \o "\" target=\"_blank\">" \o link_text \o "</a>"

Fence == BackQuote \o BackQuote \o BackQuote

\* The first index from n on of a line that starts with the fence, or
\* Len(ls) + 1 when there is none.
RECURSIVE FenceEnd(_, _)
FenceEnd(ls, n) ==
    IF n > Len(ls) \/ StartsWith(ls[n], Fence) THEN n ELSE FenceEnd(ls, n + 1)

\* line.startswith('## ') and not line.startswith('## Table')
IsSectionHeader(line) == StartsWith(line, "## ") /\ ~StartsWith(line, "## Table")

\* line.startswith('### ') and current_section
IsPatternHeader(line, cur_section) ==
    StartsWith(line, "### ") /\ cur_section # None /\ cur_section[1] # ""

NewPattern(name, section) ==
    [ name |-> name, description |-> "", rails_docs |-> "", source |-> "",
      code |-> "", category |-> categorize_pattern(section) ]

\* One iteration of the while loop on the state st = [lines, i, sections, heap,
\* current_section, current_pattern].  heap holds every pattern dict created;
\* the lists of sections and current_pattern refer to them by index, as the
\* Python names refer to the one dict object.
parse_step(st) ==
    LET line == st.lines[st.i]
        cp == st.current_pattern
        skip == [st EXCEPT !.i = @ + 1]
    IN
    IF IsSectionHeader(line) THEN
        LET name == Strip(Drop(line, 3)) IN
        [st EXCEPT !.current_section = Some(name),
                   !.sections = DictSet(@, name, << >>),
                   !.i = @ + 1]
    ELSE IF IsPatternHeader(line, st.current_section) THEN
        LET name == Strip(Drop(line, 4))
            sec == st.current_section[1]
            id == Len(st.heap) + 1
        IN
        [st EXCEPT !.heap = Append(@, NewPattern(name, sec)),
                   !.current_pattern = id,
                   !.sections = DictSet(@, sec, Append(DictGet(@, sec), id)),
                   !.i = @ + 1]
    ELSE IF Strip(line) = "" THEN skip
    ELSE IF cp = 0 THEN skip
    ELSE IF StartsWith(line, "**Rails Docs:**") THEN
        LET m == Search(LinkRe, line) IN
        IF m.ok
        THEN [skip EXCEPT !.heap[cp].rails_docs = Anchor(Group(line, m, 2), Group(line, m, 1))]
        ELSE skip
    ELSE IF StartsWith(line, "**Source:**") THEN
        LET m == Search(LinkRe, line) IN
        IF m.ok
        THEN [skip EXCEPT !.heap[cp].source = Anchor(Group(line, m, 2), Group(line, m, 1))]
        ELSE skip
    ELSE IF StartsWith(line, Fence) THEN
        LET close == FenceEnd(st.lines, st.i + 1)
            code_lines == SubSeq(st.lines, st.i + 1, close - 1)
        IN
        [st EXCEPT !.heap[cp].code = html_escape(Join(code_lines, "\n")),
                   !.i = close + 1]
    ELSE IF st.heap[cp].description = "" /\ ~StartsWith(line, "**") THEN
        [skip EXCEPT !.heap[cp].description = Strip(line)]
    ELSE skip

\* The dict parse_patterns returns: each section name with its pattern dicts.
ParseResult(st) ==
    [n \in 1..Len(st.sections) |->
        [ name |-> st.sections[n].name,
          patterns |-> [k \in 1..Len(st.sections[n].patterns) |->
                           st.heap[st.sections[n].patterns[k]]] ]]

ParseStart(content) ==
    [ lines |-> Split(content, "\n"), i |-> 1, sections |-> << >>, heap |-> << >>,
      current_section |-> None, current_pattern |-> 0 ]

RECURSIVE ParseLoop(_)
ParseLoop(st) == IF st.i > Len(st.lines) THEN st ELSE ParseLoop(parse_step(st))

parse_patterns(content) == ParseResult(ParseLoop(ParseStart(content)))

-----------------------------------------------------------------------------
(* convert_html_to_md.py: extract_patterns_from_html and generate_markdown. *)

\* html.entities.html5: the 2231 names html.unescape knows, the ones written
\* without the semicolon among them.
Html5Names ==
    { "AElig", "AElig;", "AMP", "AMP;", "Aacute", "Aacute;", "Abreve;", "Acirc", "Acirc;",
      "Acy;", "Afr;", "Agrave", "Agrave;", "Alpha;", "Amacr;", "And;", "Aogon;", "Aopf;",
      "ApplyFunction;", "Aring", "Aring;", "Ascr;", "Assign;", "Atilde", "Atilde;", "Auml",
      "Auml;", "Backslash;", "Barv;", "Barwed;", "Bcy;", "Because;", "Bernoullis;", "Beta;",
      "Bfr;", "Bopf;", "Breve;", "Bscr;", "Bumpeq;", "CHcy;", "COPY", "COPY;", "Cacute;",
      "Cap;", "CapitalDifferentialD;", "Cayleys;", "Ccaron;", "Ccedil", "Ccedil;", "Ccirc;",
      "Cconint;", "Cdot;", "Cedilla;", "CenterDot;", "Cfr;", "Chi;", "CircleDot;",
      "CircleMinus;", "CirclePlus;", "CircleTimes;", "ClockwiseContourIntegral;",
      "CloseCurlyDoubleQuote;", "CloseCurlyQuote;", "Colon;", "Colone;", "Congruent;",
      "Conint;", "ContourIntegral;", "Copf;", "Coproduct;", "CounterClockwiseContourIntegral;",
      "Cross;", "Cscr;", "Cup;", "CupCap;", "DD;", "DDotrahd;", "DJcy;", "DScy;", "DZcy;",
      "Dagger;", "Darr;", "Dashv;", "Dcaron;", "Dcy;", "Del;", "Delta;", "Dfr;",
      "DiacriticalAcute;", "DiacriticalDot;", "DiacriticalDoubleAcute;", "DiacriticalGrave;",
      "DiacriticalTilde;", "Diamond;", "DifferentialD;", "Dopf;", "Dot;", "DotDot;",
      "DotEqual;", "DoubleContourIntegral;", "DoubleDot;", "DoubleDownArrow;",
      "DoubleLeftArrow;", "DoubleLeftRightArrow;", "DoubleLeftTee;", "DoubleLongLeftArrow;",
      "DoubleLongLeftRightArrow;", "DoubleLongRightArrow;", "DoubleRightArrow;",
      "DoubleRightTee;", "DoubleUpArrow;", "DoubleUpDownArrow;", "DoubleVerticalBar;",
      "DownArrow;", "DownArrowBar;", "DownArrowUpArrow;", "DownBreve;", "DownLeftRightVector;",
      "DownLeftTeeVector;", "DownLeftVector;", "DownLeftVectorBar;", "DownRightTeeVector;",
      "DownRightVector;", "DownRightVectorBar;", "DownTee;", "DownTeeArrow;", "Downarrow;",
      "Dscr;", "Dstrok;", "ENG;", "ETH", "ETH;", "Eacute", "Eacute;", "Ecaron;", "Ecirc",
      "Ecirc;", "Ecy;", "Edot;", "Efr;", "Egrave", "Egrave;", "Element;", "Emacr;",
      "EmptySmallSquare;", "EmptyVerySmallSquare;", "Eogon;", "Eopf;", "Epsilon;", "Equal;",
      "EqualTilde;", "Equilibrium;", "Escr;", "Esim;", "Eta;", "Euml", "Euml;", "Exists;",
      "ExponentialE;", "Fcy;", "Ffr;", "FilledSmallSquare;", "FilledVerySmallSquare;", "Fopf;",
      "ForAll;", "Fouriertrf;", "Fscr;", "GJcy;", "GT", "GT;", "Gamma;", "Gammad;", "Gbreve;",
      "Gcedil;", "Gcirc;", "Gcy;", "Gdot;", "Gfr;", "Gg;", "Gopf;", "GreaterEqual;",
      "GreaterEqualLess;", "GreaterFullEqual;", "GreaterGreater;", "GreaterLess;",
      "GreaterSlantEqual;", "GreaterTilde;", "Gscr;", "Gt;", "HARDcy;", "Hacek;", "Hat;",
      "Hcirc;", "Hfr;", "HilbertSpace;", "Hopf;", "HorizontalLine;", "Hscr;", "Hstrok;",
      "HumpDownHump;", "HumpEqual;", "IEcy;", "IJlig;", "IOcy;", "Iacute", "Iacute;", "Icirc",
      "Icirc;", "Icy;", "Idot;", "Ifr;", "Igrave", "Igrave;", "Im;", "Imacr;", "ImaginaryI;",
      "Implies;", "Int;", "Integral;", "Intersection;", "InvisibleComma;", "InvisibleTimes;",
      "Iogon;", "Iopf;", "Iota;", "Iscr;", "Itilde;", "Iukcy;", "Iuml", "Iuml;", "Jcirc;",
      "Jcy;", "Jfr;", "Jopf;", "Jscr;", "Jsercy;", "Jukcy;", "KHcy;", "KJcy;", "Kappa;",
      "Kcedil;", "Kcy;", "Kfr;", "Kopf;", "Kscr;", "LJcy;", "LT", "LT;", "Lacute;", "Lambda;",
      "Lang;", "Laplacetrf;", "Larr;", "Lcaron;", "Lcedil;", "Lcy;", "LeftAngleBracket;",
      "LeftArrow;", "LeftArrowBar;", "LeftArrowRightArrow;", "LeftCeiling;",
      "LeftDoubleBracket;", "LeftDownTeeVector;", "LeftDownVector;", "LeftDownVectorBar;",
      "LeftFloor;", "LeftRightArrow;", "LeftRightVector;", "LeftTee;", "LeftTeeArrow;",
      "LeftTeeVector;", "LeftTriangle;", "LeftTriangleBar;", "LeftTriangleEqual;",
      "LeftUpDownVector;", "LeftUpTeeVector;", "LeftUpVector;", "LeftUpVectorBar;",
      "LeftVector;", "LeftVectorBar;", "Leftarrow;", "Leftrightarrow;", "LessEqualGreater;",
      "LessFullEqual;", "LessGreater;", "LessLess;", "LessSlantEqual;", "LessTilde;", "Lfr;",
      "Ll;", "Lleftarrow;", "Lmidot;", "LongLeftArrow;", "LongLeftRightArrow;",
      "LongRightArrow;", "Longleftarrow;", "Longleftrightarrow;", "Longrightarrow;", "Lopf;",
      "LowerLeftArrow;", "LowerRightArrow;", "Lscr;", "Lsh;", "Lstrok;", "Lt;", "Map;", "Mcy;",
      "MediumSpace;", "Mellintrf;", "Mfr;", "MinusPlus;", "Mopf;", "Mscr;", "Mu;", "NJcy;",
      "Nacute;", "Ncaron;", "Ncedil;", "Ncy;", "NegativeMediumSpace;", "NegativeThickSpace;",
      "NegativeThinSpace;", "NegativeVeryThinSpace;", "NestedGreaterGreater;",
      "NestedLessLess;", "NewLine;", "Nfr;", "NoBreak;", "NonBreakingSpace;", "Nopf;", "Not;",
      "NotCongruent;", "NotCupCap;", "NotDoubleVerticalBar;", "NotElement;", "NotEqual;",
      "NotEqualTilde;", "NotExists;", "NotGreater;", "NotGreaterEqual;",
      "NotGreaterFullEqual;", "NotGreaterGreater;", "NotGreaterLess;", "NotGreaterSlantEqual;",
      "NotGreaterTilde;", "NotHumpDownHump;", "NotHumpEqual;", "NotLeftTriangle;",
      "NotLeftTriangleBar;", "NotLeftTriangleEqual;", "NotLess;", "NotLessEqual;",
      "NotLessGreater;", "NotLessLess;", "NotLessSlantEqual;", "NotLessTilde;",
      "NotNestedGreaterGreater;", "NotNestedLessLess;", "NotPrecedes;", "NotPrecedesEqual;",
      "NotPrecedesSlantEqual;", "NotReverseElement;", "NotRightTriangle;",
      "NotRightTriangleBar;", "NotRightTriangleEqual;", "NotSquareSubset;",
      "NotSquareSubsetEqual;", "NotSquareSuperset;", "NotSquareSupersetEqual;", "NotSubset;",
      "NotSubsetEqual;", "NotSucceeds;", "NotSucceedsEqual;", "NotSucceedsSlantEqual;",
      "NotSucceedsTilde;", "NotSuperset;", "NotSupersetEqual;", "NotTilde;", "NotTildeEqual;",
      "NotTildeFullEqual;", "NotTildeTilde;", "NotVerticalBar;", "Nscr;", "Ntilde", "Ntilde;",
      "Nu;", "OElig;", "Oacute", "Oacute;", "Ocirc", "Ocirc;", "Ocy;", "Odblac;", "Ofr;",
      "Ograve", "Ograve;", "Omacr;", "Omega;", "Omicron;", "Oopf;", "OpenCurlyDoubleQuote;",
      "OpenCurlyQuote;", "Or;", "Oscr;", "Oslash", "Oslash;", "Otilde", "Otilde;", "Otimes;",
      "Ouml", "Ouml;", "OverBar;", "OverBrace;", "OverBracket;", "OverParenthesis;",
      "PartialD;", "Pcy;", "Pfr;", "Phi;", "Pi;", "PlusMinus;", "Poincareplane;", "Popf;",
      "Pr;", "Precedes;", "PrecedesEqual;", "PrecedesSlantEqual;", "PrecedesTilde;", "Prime;",
      "Product;", "Proportion;", "Proportional;", "Pscr;", "Psi;", "QUOT", "QUOT;", "Qfr;",
      "Qopf;", "Qscr;", "RBarr;", "REG", "REG;", "Racute;", "Rang;", "Rarr;", "Rarrtl;",
      "Rcaron;", "Rcedil;", "Rcy;", "Re;", "ReverseElement;", "ReverseEquilibrium;",
      "ReverseUpEquilibrium;", "Rfr;", "Rho;", "RightAngleBracket;", "RightArrow;",
      "RightArrowBar;", "RightArrowLeftArrow;", "RightCeiling;", "RightDoubleBracket;",
      "RightDownTeeVector;", "RightDownVector;", "RightDownVectorBar;", "RightFloor;",
      "RightTee;", "RightTeeArrow;", "RightTeeVector;", "RightTriangle;", "RightTriangleBar;",
      "RightTriangleEqual;", "RightUpDownVector;", "RightUpTeeVector;", "RightUpVector;",
      "RightUpVectorBar;", "RightVector;", "RightVectorBar;", "Rightarrow;", "Ropf;",
      "RoundImplies;", "Rrightarrow;", "Rscr;", "Rsh;", "RuleDelayed;", "SHCHcy;", "SHcy;",
      "SOFTcy;", "Sacute;", "Sc;", "Scaron;", "Scedil;", "Scirc;", "Scy;", "Sfr;",
      "ShortDownArrow;", "ShortLeftArrow;", "ShortRightArrow;", "ShortUpArrow;", "Sigma;",
      "SmallCircle;", "Sopf;", "Sqrt;", "Square;", "SquareIntersection;", "SquareSubset;",
      "SquareSubsetEqual;", "SquareSuperset;", "SquareSupersetEqual;", "SquareUnion;", "Sscr;",
      "Star;", "Sub;", "Subset;", "SubsetEqual;", "Succeeds;", "SucceedsEqual;",
      "SucceedsSlantEqual;", "SucceedsTilde;", "SuchThat;", "Sum;", "Sup;", "Superset;",
      "SupersetEqual;", "Supset;", "THORN", "THORN;", "TRADE;", "TSHcy;", "TScy;", "Tab;",
      "Tau;", "Tcaron;", "Tcedil;", "Tcy;", "Tfr;", "Therefore;", "Theta;", "ThickSpace;",
      "ThinSpace;", "Tilde;", "TildeEqual;", "TildeFullEqual;", "TildeTilde;", "Topf;",
      "TripleDot;", "Tscr;", "Tstrok;", "Uacute", "Uacute;", "Uarr;", "Uarrocir;", "Ubrcy;",
      "Ubreve;", "Ucirc", "Ucirc;", "Ucy;", "Udblac;", "Ufr;", "Ugrave", "Ugrave;", "Umacr;",
      "UnderBar;", "UnderBrace;", "UnderBracket;", "UnderParenthesis;", "Union;", "UnionPlus;",
      "Uogon;", "Uopf;", "UpArrow;", "UpArrowBar;", "UpArrowDownArrow;", "UpDownArrow;",
      "UpEquilibrium;", "UpTee;", "UpTeeArrow;", "Uparrow;", "Updownarrow;", "UpperLeftArrow;",
      "UpperRightArrow;", "Upsi;", "Upsilon;", "Uring;", "Uscr;", "Utilde;", "Uuml", "Uuml;",
      "VDash;", "Vbar;", "Vcy;", "Vdash;", "Vdashl;", "Vee;", "Verbar;", "Vert;",
      "VerticalBar;", "VerticalLine;", "VerticalSeparator;", "VerticalTilde;",
      "VeryThinSpace;", "Vfr;", "Vopf;", "Vscr;", "Vvdash;", "Wcirc;", "Wedge;", "Wfr;",
      "Wopf;", "Wscr;", "Xfr;", "Xi;", "Xopf;", "Xscr;", "YAcy;", "YIcy;", "YUcy;", "Yacute",
      "Yacute;", "Ycirc;", "Ycy;", "Yfr;", "Yopf;", "Yscr;", "Yuml;", "ZHcy;", "Zacute;",
      "Zcaron;", "Zcy;", "Zdot;", "ZeroWidthSpace;", "Zeta;", "Zfr;", "Zopf;", "Zscr;",
      "aacute", "aacute;", "abreve;", "ac;", "acE;", "acd;", "acirc", "acirc;", "acute",
      "acute;", "acy;", "aelig", "aelig;", "af;", "afr;", "agrave", "agrave;", "alefsym;",
      "aleph;", "alpha;", "amacr;", "amalg;", "amp", "amp;", "and;", "andand;", "andd;",
      "andslope;", "andv;", "ang;", "ange;", "angle;", "angmsd;", "angmsdaa;", "angmsdab;",
      "angmsdac;", "angmsdad;", "angmsdae;", "angmsdaf;", "angmsdag;", "angmsdah;", "angrt;",
      "angrtvb;", "angrtvbd;", "angsph;", "angst;", "angzarr;", "aogon;", "aopf;", "ap;",
      "apE;", "apacir;", "ape;", "apid;", "apos;", "approx;", "approxeq;", "aring", "aring;",
      "ascr;", "ast;", "asymp;", "asympeq;", "atilde", "atilde;", "auml", "auml;", "awconint;",
      "awint;", "bNot;", "backcong;", "backepsilon;", "backprime;", "backsim;", "backsimeq;",
      "barvee;", "barwed;", "barwedge;", "bbrk;", "bbrktbrk;", "bcong;", "bcy;", "bdquo;",
      "becaus;", "because;", "bemptyv;", "bepsi;", "bernou;", "beta;", "beth;", "between;",
      "bfr;", "bigcap;", "bigcirc;", "bigcup;", "bigodot;", "bigoplus;", "bigotimes;",
      "bigsqcup;", "bigstar;", "bigtriangledown;", "bigtriangleup;", "biguplus;", "bigvee;",
      "bigwedge;", "bkarow;", "blacklozenge;", "blacksquare;", "blacktriangle;",
      "blacktriangledown;", "blacktriangleleft;", "blacktriangleright;", "blank;", "blk12;",
      "blk14;", "blk34;", "block;", "bne;", "bnequiv;", "bnot;", "bopf;", "bot;", "bottom;",
      "bowtie;", "boxDL;", "boxDR;", "boxDl;", "boxDr;", "boxH;", "boxHD;", "boxHU;", "boxHd;",
      "boxHu;", "boxUL;", "boxUR;", "boxUl;", "boxUr;", "boxV;", "boxVH;", "boxVL;", "boxVR;",
      "boxVh;", "boxVl;", "boxVr;", "boxbox;", "boxdL;", "boxdR;", "boxdl;", "boxdr;", "boxh;",
      "boxhD;", "boxhU;", "boxhd;", "boxhu;", "boxminus;", "boxplus;", "boxtimes;", "boxuL;",
      "boxuR;", "boxul;", "boxur;", "boxv;", "boxvH;", "boxvL;", "boxvR;", "boxvh;", "boxvl;",
      "boxvr;", "bprime;", "breve;", "brvbar", "brvbar;", "bscr;", "bsemi;", "bsim;", "bsime;",
      "bsol;", "bsolb;", "bsolhsub;", "bull;", "bullet;", "bump;", "bumpE;", "bumpe;",
      "bumpeq;", "cacute;", "cap;", "capand;", "capbrcup;", "capcap;", "capcup;", "capdot;",
      "caps;", "caret;", "caron;", "ccaps;", "ccaron;", "ccedil", "ccedil;", "ccirc;",
      "ccups;", "ccupssm;", "cdot;", "cedil", "cedil;", "cemptyv;", "cent", "cent;",
      "centerdot;", "cfr;", "chcy;", "check;", "checkmark;", "chi;", "cir;", "cirE;", "circ;",
      "circeq;", "circlearrowleft;", "circlearrowright;", "circledR;", "circledS;",
      "circledast;", "circledcirc;", "circleddash;", "cire;", "cirfnint;", "cirmid;",
      "cirscir;", "clubs;", "clubsuit;", "colon;", "colone;", "coloneq;", "comma;", "commat;",
      "comp;", "compfn;", "complement;", "complexes;", "cong;", "congdot;", "conint;", "copf;",
      "coprod;", "copy", "copy;", "copysr;", "crarr;", "cross;", "cscr;", "csub;", "csube;",
      "csup;", "csupe;", "ctdot;", "cudarrl;", "cudarrr;", "cuepr;", "cuesc;", "cularr;",
      "cularrp;", "cup;", "cupbrcap;", "cupcap;", "cupcup;", "cupdot;", "cupor;", "cups;",
      "curarr;", "curarrm;", "curlyeqprec;", "curlyeqsucc;", "curlyvee;", "curlywedge;",
      "curren", "curren;", "curvearrowleft;", "curvearrowright;", "cuvee;", "cuwed;",
      "cwconint;", "cwint;", "cylcty;", "dArr;", "dHar;", "dagger;", "daleth;", "darr;",
      "dash;", "dashv;", "dbkarow;", "dblac;", "dcaron;", "dcy;", "dd;", "ddagger;", "ddarr;",
      "ddotseq;", "deg", "deg;", "delta;", "demptyv;", "dfisht;", "dfr;", "dharl;", "dharr;",
      "diam;", "diamond;", "diamondsuit;", "diams;", "die;", "digamma;", "disin;", "div;",
      "divide", "divide;", "divideontimes;", "divonx;", "djcy;", "dlcorn;", "dlcrop;",
      "dollar;", "dopf;", "dot;", "doteq;", "doteqdot;", "dotminus;", "dotplus;", "dotsquare;",
      "doublebarwedge;", "downarrow;", "downdownarrows;", "downharpoonleft;",
      "downharpoonright;", "drbkarow;", "drcorn;", "drcrop;", "dscr;", "dscy;", "dsol;",
      "dstrok;", "dtdot;", "dtri;", "dtrif;", "duarr;", "duhar;", "dwangle;", "dzcy;",
      "dzigrarr;", "eDDot;", "eDot;", "eacute", "eacute;", "easter;", "ecaron;", "ecir;",
      "ecirc", "ecirc;", "ecolon;", "ecy;", "edot;", "ee;", "efDot;", "efr;", "eg;", "egrave",
      "egrave;", "egs;", "egsdot;", "el;", "elinters;", "ell;", "els;", "elsdot;", "emacr;",
      "empty;", "emptyset;", "emptyv;", "emsp13;", "emsp14;", "emsp;", "eng;", "ensp;",
      "eogon;", "eopf;", "epar;", "eparsl;", "eplus;", "epsi;", "epsilon;", "epsiv;",
      "eqcirc;", "eqcolon;", "eqsim;", "eqslantgtr;", "eqslantless;", "equals;", "equest;",
      "equiv;", "equivDD;", "eqvparsl;", "erDot;", "erarr;", "escr;", "esdot;", "esim;",
      "eta;", "eth", "eth;", "euml", "euml;", "euro;", "excl;", "exist;", "expectation;",
      "exponentiale;", "fallingdotseq;", "fcy;", "female;", "ffilig;", "fflig;", "ffllig;",
      "ffr;", "filig;", "fjlig;", "flat;", "fllig;", "fltns;", "fnof;", "fopf;", "forall;",
      "fork;", "forkv;", "fpartint;", "frac12", "frac12;", "frac13;", "frac14", "frac14;",
      "frac15;", "frac16;", "frac18;", "frac23;", "frac25;", "frac34", "frac34;", "frac35;",
      "frac38;", "frac45;", "frac56;", "frac58;", "frac78;", "frasl;", "frown;", "fscr;",
      "gE;", "gEl;", "gacute;", "gamma;", "gammad;", "gap;", "gbreve;", "gcirc;", "gcy;",
      "gdot;", "ge;", "gel;", "geq;", "geqq;", "geqslant;", "ges;", "gescc;", "gesdot;",
      "gesdoto;", "gesdotol;", "gesl;", "gesles;", "gfr;", "gg;", "ggg;", "gimel;", "gjcy;",
      "gl;", "glE;", "gla;", "glj;", "gnE;", "gnap;", "gnapprox;", "gne;", "gneq;", "gneqq;",
      "gnsim;", "gopf;", "grave;", "gscr;", "gsim;", "gsime;", "gsiml;", "gt", "gt;", "gtcc;",
      "gtcir;", "gtdot;", "gtlPar;", "gtquest;", "gtrapprox;", "gtrarr;", "gtrdot;",
      "gtreqless;", "gtreqqless;", "gtrless;", "gtrsim;", "gvertneqq;", "gvnE;", "hArr;",
      "hairsp;", "half;", "hamilt;", "hardcy;", "harr;", "harrcir;", "harrw;", "hbar;",
      "hcirc;", "hearts;", "heartsuit;", "hellip;", "hercon;", "hfr;", "hksearow;",
      "hkswarow;", "hoarr;", "homtht;", "hookleftarrow;", "hookrightarrow;", "hopf;",
      "horbar;", "hscr;", "hslash;", "hstrok;", "hybull;", "hyphen;", "iacute", "iacute;",
      "ic;", "icirc", "icirc;", "icy;", "iecy;", "iexcl", "iexcl;", "iff;", "ifr;", "igrave",
      "igrave;", "ii;", "iiiint;", "iiint;", "iinfin;", "iiota;", "ijlig;", "imacr;", "image;",
      "imagline;", "imagpart;", "imath;", "imof;", "imped;", "in;", "incare;", "infin;",
      "infintie;", "inodot;", "int;", "intcal;", "integers;", "intercal;", "intlarhk;",
      "intprod;", "iocy;", "iogon;", "iopf;", "iota;", "iprod;", "iquest", "iquest;", "iscr;",
      "isin;", "isinE;", "isindot;", "isins;", "isinsv;", "isinv;", "it;", "itilde;", "iukcy;",
      "iuml", "iuml;", "jcirc;", "jcy;", "jfr;", "jmath;", "jopf;", "jscr;", "jsercy;",
      "jukcy;", "kappa;", "kappav;", "kcedil;", "kcy;", "kfr;", "kgreen;", "khcy;", "kjcy;",
      "kopf;", "kscr;", "lAarr;", "lArr;", "lAtail;", "lBarr;", "lE;", "lEg;", "lHar;",
      "lacute;", "laemptyv;", "lagran;", "lambda;", "lang;", "langd;", "langle;", "lap;",
      "laquo", "laquo;", "larr;", "larrb;", "larrbfs;", "larrfs;", "larrhk;", "larrlp;",
      "larrpl;", "larrsim;", "larrtl;", "lat;", "latail;", "late;", "lates;", "lbarr;",
      "lbbrk;", "lbrace;", "lbrack;", "lbrke;", "lbrksld;", "lbrkslu;", "lcaron;", "lcedil;",
      "lceil;", "lcub;", "lcy;", "ldca;", "ldquo;", "ldquor;", "ldrdhar;", "ldrushar;",
      "ldsh;", "le;", "leftarrow;", "leftarrowtail;", "leftharpoondown;", "leftharpoonup;",
      "leftleftarrows;", "leftrightarrow;", "leftrightarrows;", "leftrightharpoons;",
      "leftrightsquigarrow;", "leftthreetimes;", "leg;", "leq;", "leqq;", "leqslant;", "les;",
      "lescc;", "lesdot;", "lesdoto;", "lesdotor;", "lesg;", "lesges;", "lessapprox;",
      "lessdot;", "lesseqgtr;", "lesseqqgtr;", "lessgtr;", "lesssim;", "lfisht;", "lfloor;",
      "lfr;", "lg;", "lgE;", "lhard;", "lharu;", "lharul;", "lhblk;", "ljcy;", "ll;", "llarr;",
      "llcorner;", "llhard;", "lltri;", "lmidot;", "lmoust;", "lmoustache;", "lnE;", "lnap;",
      "lnapprox;", "lne;", "lneq;", "lneqq;", "lnsim;", "loang;", "loarr;", "lobrk;",
      "longleftarrow;", "longleftrightarrow;", "longmapsto;", "longrightarrow;",
      "looparrowleft;", "looparrowright;", "lopar;", "lopf;", "loplus;", "lotimes;", "lowast;",
      "lowbar;", "loz;", "lozenge;", "lozf;", "lpar;", "lparlt;", "lrarr;", "lrcorner;",
      "lrhar;", "lrhard;", "lrm;", "lrtri;", "lsaquo;", "lscr;", "lsh;", "lsim;", "lsime;",
      "lsimg;", "lsqb;", "lsquo;", "lsquor;", "lstrok;", "lt", "lt;", "ltcc;", "ltcir;",
      "ltdot;", "lthree;", "ltimes;", "ltlarr;", "ltquest;", "ltrPar;", "ltri;", "ltrie;",
      "ltrif;", "lurdshar;", "luruhar;", "lvertneqq;", "lvnE;", "mDDot;", "macr", "macr;",
      "male;", "malt;", "maltese;", "map;", "mapsto;", "mapstodown;", "mapstoleft;",
      "mapstoup;", "marker;", "mcomma;", "mcy;", "mdash;", "measuredangle;", "mfr;", "mho;",
      "micro", "micro;", "mid;", "midast;", "midcir;", "middot", "middot;", "minus;",
      "minusb;", "minusd;", "minusdu;", "mlcp;", "mldr;", "mnplus;", "models;", "mopf;", "mp;",
      "mscr;", "mstpos;", "mu;", "multimap;", "mumap;", "nGg;", "nGt;", "nGtv;", "nLeftarrow;",
      "nLeftrightarrow;", "nLl;", "nLt;", "nLtv;", "nRightarrow;", "nVDash;", "nVdash;",
      "nabla;", "nacute;", "nang;", "nap;", "napE;", "napid;", "napos;", "napprox;", "natur;",
      "natural;", "naturals;", "nbsp", "nbsp;", "nbump;", "nbumpe;", "ncap;", "ncaron;",
      "ncedil;", "ncong;", "ncongdot;", "ncup;", "ncy;", "ndash;", "ne;", "neArr;", "nearhk;",
      "nearr;", "nearrow;", "nedot;", "nequiv;", "nesear;", "nesim;", "nexist;", "nexists;",
      "nfr;", "ngE;", "nge;", "ngeq;", "ngeqq;", "ngeqslant;", "nges;", "ngsim;", "ngt;",
      "ngtr;", "nhArr;", "nharr;", "nhpar;", "ni;", "nis;", "nisd;", "niv;", "njcy;", "nlArr;",
      "nlE;", "nlarr;", "nldr;", "nle;", "nleftarrow;", "nleftrightarrow;", "nleq;", "nleqq;",
      "nleqslant;", "nles;", "nless;", "nlsim;", "nlt;", "nltri;", "nltrie;", "nmid;", "nopf;",
      "not", "not;", "notin;", "notinE;", "notindot;", "notinva;", "notinvb;", "notinvc;",
      "notni;", "notniva;", "notnivb;", "notnivc;", "npar;", "nparallel;", "nparsl;", "npart;",
      "npolint;", "npr;", "nprcue;", "npre;", "nprec;", "npreceq;", "nrArr;", "nrarr;",
      "nrarrc;", "nrarrw;", "nrightarrow;", "nrtri;", "nrtrie;", "nsc;", "nsccue;", "nsce;",
      "nscr;", "nshortmid;", "nshortparallel;", "nsim;", "nsime;", "nsimeq;", "nsmid;",
      "nspar;", "nsqsube;", "nsqsupe;", "nsub;", "nsubE;", "nsube;", "nsubset;", "nsubseteq;",
      "nsubseteqq;", "nsucc;", "nsucceq;", "nsup;", "nsupE;", "nsupe;", "nsupset;",
      "nsupseteq;", "nsupseteqq;", "ntgl;", "ntilde", "ntilde;", "ntlg;", "ntriangleleft;",
      "ntrianglelefteq;", "ntriangleright;", "ntrianglerighteq;", "nu;", "num;", "numero;",
      "numsp;", "nvDash;", "nvHarr;", "nvap;", "nvdash;", "nvge;", "nvgt;", "nvinfin;",
      "nvlArr;", "nvle;", "nvlt;", "nvltrie;", "nvrArr;", "nvrtrie;", "nvsim;", "nwArr;",
      "nwarhk;", "nwarr;", "nwarrow;", "nwnear;", "oS;", "oacute", "oacute;", "oast;", "ocir;",
      "ocirc", "ocirc;", "ocy;", "odash;", "odblac;", "odiv;", "odot;", "odsold;", "oelig;",
      "ofcir;", "ofr;", "ogon;", "ograve", "ograve;", "ogt;", "ohbar;", "ohm;", "oint;",
      "olarr;", "olcir;", "olcross;", "oline;", "olt;", "omacr;", "omega;", "omicron;",
      "omid;", "ominus;", "oopf;", "opar;", "operp;", "oplus;", "or;", "orarr;", "ord;",
      "order;", "orderof;", "ordf", "ordf;", "ordm", "ordm;", "origof;", "oror;", "orslope;",
      "orv;", "oscr;", "oslash", "oslash;", "osol;", "otilde", "otilde;", "otimes;",
      "otimesas;", "ouml", "ouml;", "ovbar;", "par;", "para", "para;", "parallel;", "parsim;",
      "parsl;", "part;", "pcy;", "percnt;", "period;", "permil;", "perp;", "pertenk;", "pfr;",
      "phi;", "phiv;", "phmmat;", "phone;", "pi;", "pitchfork;", "piv;", "planck;", "planckh;",
      "plankv;", "plus;", "plusacir;", "plusb;", "pluscir;", "plusdo;", "plusdu;", "pluse;",
      "plusmn", "plusmn;", "plussim;", "plustwo;", "pm;", "pointint;", "popf;", "pound",
      "pound;", "pr;", "prE;", "prap;", "prcue;", "pre;", "prec;", "precapprox;",
      "preccurlyeq;", "preceq;", "precnapprox;", "precneqq;", "precnsim;", "precsim;",
      "prime;", "primes;", "prnE;", "prnap;", "prnsim;", "prod;", "profalar;", "profline;",
      "profsurf;", "prop;", "propto;", "prsim;", "prurel;", "pscr;", "psi;", "puncsp;", "qfr;",
      "qint;", "qopf;", "qprime;", "qscr;", "quaternions;", "quatint;", "quest;", "questeq;",
      "quot", "quot;", "rAarr;", "rArr;", "rAtail;", "rBarr;", "rHar;", "race;", "racute;",
      "radic;", "raemptyv;", "rang;", "rangd;", "range;", "rangle;", "raquo", "raquo;",
      "rarr;", "rarrap;", "rarrb;", "rarrbfs;", "rarrc;", "rarrfs;", "rarrhk;", "rarrlp;",
      "rarrpl;", "rarrsim;", "rarrtl;", "rarrw;", "ratail;", "ratio;", "rationals;", "rbarr;",
      "rbbrk;", "rbrace;", "rbrack;", "rbrke;", "rbrksld;", "rbrkslu;", "rcaron;", "rcedil;",
      "rceil;", "rcub;", "rcy;", "rdca;", "rdldhar;", "rdquo;", "rdquor;", "rdsh;", "real;",
      "realine;", "realpart;", "reals;", "rect;", "reg", "reg;", "rfisht;", "rfloor;", "rfr;",
      "rhard;", "rharu;", "rharul;", "rho;", "rhov;", "rightarrow;", "rightarrowtail;",
      "rightharpoondown;", "rightharpoonup;", "rightleftarrows;", "rightleftharpoons;",
      "rightrightarrows;", "rightsquigarrow;", "rightthreetimes;", "ring;", "risingdotseq;",
      "rlarr;", "rlhar;", "rlm;", "rmoust;", "rmoustache;", "rnmid;", "roang;", "roarr;",
      "robrk;", "ropar;", "ropf;", "roplus;", "rotimes;", "rpar;", "rpargt;", "rppolint;",
      "rrarr;", "rsaquo;", "rscr;", "rsh;", "rsqb;", "rsquo;", "rsquor;", "rthree;", "rtimes;",
      "rtri;", "rtrie;", "rtrif;", "rtriltri;", "ruluhar;", "rx;", "sacute;", "sbquo;", "sc;",
      "scE;", "scap;", "scaron;", "sccue;", "sce;", "scedil;", "scirc;", "scnE;", "scnap;",
      "scnsim;", "scpolint;", "scsim;", "scy;", "sdot;", "sdotb;", "sdote;", "seArr;",
      "searhk;", "searr;", "searrow;", "sect", "sect;", "semi;", "seswar;", "setminus;",
      "setmn;", "sext;", "sfr;", "sfrown;", "sharp;", "shchcy;", "shcy;", "shortmid;",
      "shortparallel;", "shy", "shy;", "sigma;", "sigmaf;", "sigmav;", "sim;", "simdot;",
      "sime;", "simeq;", "simg;", "simgE;", "siml;", "simlE;", "simne;", "simplus;",
      "simrarr;", "slarr;", "smallsetminus;", "smashp;", "smeparsl;", "smid;", "smile;",
      "smt;", "smte;", "smtes;", "softcy;", "sol;", "solb;", "solbar;", "sopf;", "spades;",
      "spadesuit;", "spar;", "sqcap;", "sqcaps;", "sqcup;", "sqcups;", "sqsub;", "sqsube;",
      "sqsubset;", "sqsubseteq;", "sqsup;", "sqsupe;", "sqsupset;", "sqsupseteq;", "squ;",
      "square;", "squarf;", "squf;", "srarr;", "sscr;", "ssetmn;", "ssmile;", "sstarf;",
      "star;", "starf;", "straightepsilon;", "straightphi;", "strns;", "sub;", "subE;",
      "subdot;", "sube;", "subedot;", "submult;", "subnE;", "subne;", "subplus;", "subrarr;",
      "subset;", "subseteq;", "subseteqq;", "subsetneq;", "subsetneqq;", "subsim;", "subsub;",
      "subsup;", "succ;", "succapprox;", "succcurlyeq;", "succeq;", "succnapprox;",
      "succneqq;", "succnsim;", "succsim;", "sum;", "sung;", "sup1", "sup1;", "sup2", "sup2;",
      "sup3", "sup3;", "sup;", "supE;", "supdot;", "supdsub;", "supe;", "supedot;", "suphsol;",
      "suphsub;", "suplarr;", "supmult;", "supnE;", "supne;", "supplus;", "supset;",
      "supseteq;", "supseteqq;", "supsetneq;", "supsetneqq;", "supsim;", "supsub;", "supsup;",
      "swArr;", "swarhk;", "swarr;", "swarrow;", "swnwar;", "szlig", "szlig;", "target;",
      "tau;", "tbrk;", "tcaron;", "tcedil;", "tcy;", "tdot;", "telrec;", "tfr;", "there4;",
      "therefore;", "theta;", "thetasym;", "thetav;", "thickapprox;", "thicksim;", "thinsp;",
      "thkap;", "thksim;", "thorn", "thorn;", "tilde;", "times", "times;", "timesb;",
      "timesbar;", "timesd;", "tint;", "toea;", "top;", "topbot;", "topcir;", "topf;",
      "topfork;", "tosa;", "tprime;", "trade;", "triangle;", "triangledown;", "triangleleft;",
      "trianglelefteq;", "triangleq;", "triangleright;", "trianglerighteq;", "tridot;",
      "trie;", "triminus;", "triplus;", "trisb;", "tritime;", "trpezium;", "tscr;", "tscy;",
      "tshcy;", "tstrok;", "twixt;", "twoheadleftarrow;", "twoheadrightarrow;", "uArr;",
      "uHar;", "uacute", "uacute;", "uarr;", "ubrcy;", "ubreve;", "ucirc", "ucirc;", "ucy;",
      "udarr;", "udblac;", "udhar;", "ufisht;", "ufr;", "ugrave", "ugrave;", "uharl;",
      "uharr;", "uhblk;", "ulcorn;", "ulcorner;", "ulcrop;", "ultri;", "umacr;", "uml", "uml;",
      "uogon;", "uopf;", "uparrow;", "updownarrow;", "upharpoonleft;", "upharpoonright;",
      "uplus;", "upsi;", "upsih;", "upsilon;", "upuparrows;", "urcorn;", "urcorner;",
      "urcrop;", "uring;", "urtri;", "uscr;", "utdot;", "utilde;", "utri;", "utrif;", "uuarr;",
      "uuml", "uuml;", "uwangle;", "vArr;", "vBar;", "vBarv;", "vDash;", "vangrt;",
      "varepsilon;", "varkappa;", "varnothing;", "varphi;", "varpi;", "varpropto;", "varr;",
      "varrho;", "varsigma;", "varsubsetneq;", "varsubsetneqq;", "varsupsetneq;",
      "varsupsetneqq;", "vartheta;", "vartriangleleft;", "vartriangleright;", "vcy;", "vdash;",
      "vee;", "veebar;", "veeeq;", "vellip;", "verbar;", "vert;", "vfr;", "vltri;", "vnsub;",
      "vnsup;", "vopf;", "vprop;", "vrtri;", "vscr;", "vsubnE;", "vsubne;", "vsupnE;",
      "vsupne;", "vzigzag;", "wcirc;", "wedbar;", "wedge;", "wedgeq;", "weierp;", "wfr;",
      "wopf;", "wp;", "wr;", "wreath;", "wscr;", "xcap;", "xcirc;", "xcup;", "xdtri;", "xfr;",
      "xhArr;", "xharr;", "xi;", "xlArr;", "xlarr;", "xmap;", "xnis;", "xodot;", "xopf;",
      "xoplus;", "xotime;", "xrArr;", "xrarr;", "xscr;", "xsqcup;", "xuplus;", "xutri;",
      "xvee;", "xwedge;", "yacute", "yacute;", "yacy;", "ycirc;", "ycy;", "yen", "yen;",
      "yfr;", "yicy;", "yopf;", "yscr;", "yucy;", "yuml", "yuml;", "zacute;", "zcaron;",
      "zcy;", "zdot;", "zeetrf;", "zeta;", "zfr;", "zhcy;", "zigrarr;", "zopf;", "zscr;",
      "zwj;", "zwnj;" }

\* html5[name], for the 54 names whose value is text of the model's alphabet.
\* The value of each other name holds a character above code point 126, which
\* the strings of the model do not hold: Html5 is not defined for it.
Html5(name) ==
    CASE name \in {"Tab;"} -> "\t"
      [] name \in {"NewLine;"} -> "\n"
      [] name \in {"excl;"} -> "!"
      [] name \in {"QUOT", "QUOT;", "quot", "quot;"} -> "\""
      [] name \in {"num;"} -> "#"
      [] name \in {"dollar;"} -> "$"
      [] name \in {"percnt;"} -> "%"
      [] name \in {"AMP", "AMP;", "amp", "amp;"} -> "&"
      [] name \in {"apos;"} -> "'"
      [] name \in {"lpar;"} -> "("
      [] name \in {"rpar;"} -> ")"
      [] name \in {"ast;", "midast;"} -> "*"
      [] name \in {"plus;"} -> "+"
      [] name \in {"comma;"} -> ","
      [] name \in {"period;"} -> "."
      [] name \in {"sol;"} -> "/"
      [] name \in {"colon;"} -> ":"
      [] name \in {"semi;"} -> ";"
      [] name \in {"LT", "LT;", "lt", "lt;"} -> "<"
      [] name \in {"equals;"} -> "="
      [] name \in {"GT", "GT;", "gt", "gt;"} -> ">"
      [] name \in {"quest;"} -> "?"
      [] name \in {"commat;"} -> "@"
      [] name \in {"lbrack;", "lsqb;"} -> "["
      [] name \in {"bsol;"} -> "\\"
      [] name \in {"rbrack;", "rsqb;"} -> "]"
      [] name \in {"Hat;"} -> "^"
      [] name \in {"UnderBar;", "lowbar;"} -> "_"
      [] name \in {"DiacriticalGrave;", "grave;"} -> "~"
      [] name \in {"fjlig;"} -> "fj"
      [] name \in {"lbrace;", "lcub;"} -> "{"
      [] name \in {"VerticalLine;", "verbar;", "vert;"} -> "|"
      [] name \in {"rbrace;", "rcub;"} -> "}"

\* r'&(#[0-9]+;?|#[xX][0-9a-fA-F]+;?|[^\t\n\f <&#;]{1,32};?)': its three
\* alternatives, in the order re tries them.  Nothing follows the group, so
\* the first alternative that matches at a position is the match there.
HexDigits == "0123456789abcdef"
CharRefDecRe ==
    << Lit("&"), Open(1), Lit("#"), Plus(In(CharsOf(Digits))),
       Rep(In({";"}), 0, 1, TRUE), Close(1) >>
CharRefHexRe ==
    << Lit("&"), Open(1), Lit("#"), One(In({"x", "X"})),
       Plus(In(CharsOf(HexDigits) \cup CharsOf("ABCDEF"))),
       Rep(In({";"}), 0, 1, TRUE), Close(1) >>
CharRefNameRe ==
    << Lit("&"), Open(1),
       Rep(NotIn({"\t", "\n", "\f", " ", "<", "&", "#", ";"}), 1, 32, TRUE),
       Rep(In({";"}), 0, 1, TRUE),
       Close(1) >>

\* s.rstrip(';') of a reference that ends in at most one semicolon.
RStripSemi(s) ==
    IF Len(s) > 0 /\ At(s, Len(s)) = ";" THEN SubSeq(s, 1, Len(s) - 1) ELSE s

\* int(digits, base) added to acc * base^len(digits).  Every number above
\* 0x10FFFF is treated alike by _replace_charref, so the sum stops at 0x110000.
RECURSIVE CharRefInt(_, _, _)
CharRefInt(digits, base, acc) ==
    IF digits = "" THEN acc
    ELSE LET d == IndexIn(HexDigits, LowerChar(Head(digits))) - 1
             n == acc * base + d
         IN  CharRefInt(Tail(digits), base, IF n > 1114111 THEN 1114112 ELSE n)

\* What _replace_charref returns for the numeric reference to num, where that
\* is text of the model's alphabet.  A reference to any other code point
\* gives a character the strings of the model do not hold (U+FFFD, a
\* Windows-1252 character, chr(num) of 126 or above 159): NumericCharRef is
\* not defined for it.
NumericCharRef(num) ==
    LET invalid_codepoints ==
          (1..8) \cup {11} \cup (14..31) \cup (127..159) \cup (64976..65007)
            \cup { plane * 65536 + low : plane \in 0..16, low \in {65534, 65535} }
    IN
    CASE num = 13 -> "\r"    \* html._invalid_charrefs, looked up first: 0, 13, 128..159
      [] num \in invalid_codepoints \ ({0} \cup (128..159)) -> ""
      [] num = 9 -> "\t"
      [] num = 10 -> "\n"
      [] num = 12 -> "\f"
      [] num \in 32..125 -> At(Printable, num - 31)

\* The longest proper prefix of name (of at least 2 characters) that html5
\* knows, as _replace_charref looks for it; 0 when there is none.
RECURSIVE CharRefPrefix(_, _)
CharRefPrefix(name, x) ==
    IF x < 2 THEN 0
    ELSE IF SubSeq(name, 1, x) \in Html5Names THEN x
    ELSE CharRefPrefix(name, x - 1)

\* _replace_charref(s) for the group s of a match of the pattern.
replace_charref(s) ==
    IF At(s, 1) = "#" THEN
        IF At(s, 2) \in {"x", "X"}
        THEN NumericCharRef(CharRefInt(RStripSemi(Drop(s, 2)), 16, 0))
        ELSE NumericCharRef(CharRefInt(RStripSemi(Drop(s, 1)), 10, 0))
    ELSE IF s \in Html5Names THEN Html5(s)
    ELSE LET x == CharRefPrefix(s, Len(s) - 1) IN
         IF x > 0 THEN Html5(SubSeq(s, 1, x)) \o Drop(s, x) ELSE "&" \o s

\* html.unescape(text): _charref.sub(_replace_charref, text)
RECURSIVE unescape_html_entities(_)
unescape_html_entities(text) ==
    LET amp == Find(text, "&", 1) IN
    IF amp = 0 THEN text
    ELSE
      LET before == SubSeq(text, 1, amp - 1)
          rest == Drop(text, amp - 1)
          dec == Match(CharRefDecRe, rest)
          hex == Match(CharRefHexRe, rest)
          m == IF dec.ok THEN dec ELSE IF hex.ok THEN hex ELSE Match(CharRefNameRe, rest)
      IN
      IF ~m.ok THEN before \o "&" \o unescape_html_entities(Drop(rest, 1))
      ELSE before \o replace_charref(Group(rest, m, 1))
                  \o unescape_html_entities(Drop(rest, m.end - 1))

\* r'<h2[^>]*id="([^"]+)"[^>]*>([^<]+)</h2>'
H2Re ==
    << Lit("<h2"), Star(NotIn({">"})), Lit("id=\""), Open(1), Plus(NotIn({"\""})),
       Close(1), Lit("\""), Star(NotIn({">"})), Lit(">"), Open(2),
       Plus(NotIn({"<"})), Close(2), Lit("</h2>") >>

\* r'<div class="pattern[^"]*">(.*?)</div>\s*(?=<div class="pattern|<h2|<div class="generated|$)'
BlockRe ==
    << Lit("<div class=\"pattern"), Star(NotIn({"\""})), Lit("\">"), Open(1),
       LazyStar(AnyChar), Close(1), Lit("</div>"), Star(In(Whitespace)),
       LookAhead(<< << Lit("<div class=\"pattern") >>, << Lit("<h2") >>,
                    << Lit("<div class=\"generated") >>, << Eos >> >>) >>

\* r'<h3>([^<]+)</h3>' and r'<p>([^<]+)</p>'
TitleRe == << Lit("<h3>"), Open(1), Plus(NotIn({"<"})), Close(1), Lit("</h3>") >>
DescRe  == << Lit("<p>"), Open(1), Plus(NotIn({"<"})), Close(1), Lit("</p>") >>

\* r'<div class="docs"><a href="([^"]+)"[^>]*>([^<]+)</a></div>', and "file"
WrappedLinkRe(class) ==
    << Lit("<div class=\"" \o class \o "\"><a href=\""), Open(1), Plus(NotIn({"\""})),
       Close(1), Lit("\""), Star(NotIn({">"})), Lit(">"), Open(2),
       Plus(NotIn({"<"})), Close(2), Lit("</a></div>") >>
DocsRe == WrappedLinkRe("docs")
FileRe == WrappedLinkRe("file")

\* r'<pre><code>(.*?)</code></pre>'
CodeRe ==
    << Lit("<pre><code>"), Open(1), LazyStar(AnyChar), Close(1), Lit("</code></pre>") >>

\* re.split(re, s) of a pattern with two groups: the text before each match
\* and the match's two groups, then the text after the last match.
RECURSIVE ReSplit2(_, _)
ReSplit2(re, s) ==
    LET m == Search(re, s) IN
    IF ~m.ok THEN << s >>
    ELSE << SubSeq(s, 1, m.start - 1), Group(s, m, 1), Group(s, m, 2) >>
         \o ReSplit2(re, Drop(s, m.end - 1))

\* re.findall(re, s) of a pattern with one group: the groups' texts.
FindAll1(re, s) ==
    LET ms == FindIter(re, s, 1) IN [n \in 1..Len(ms) |-> Group(s, ms[n], 1)]

\* A dict with no key, and a dict with one more key.
EmptyDict == [key \in {} |-> ""]
With(d, key, value) == (key :> value) @@ d
Has(d, key) == key \in DOMAIN d

\* The body of 'for block in pattern_blocks': the dict of one block.
ExtractBlock(block) ==
    LET title_match == Search(TitleRe, block)
        desc_match  == Search(DescRe, block)
        docs_match  == Search(DocsRe, block)
        file_match  == Search(FileRe, block)
        code_match  == Search(CodeRe, block)
        p0 == EmptyDict
        p1 == IF title_match.ok
              THEN With(p0, "title", Strip(Group(block, title_match, 1))) ELSE p0
        p2 == IF desc_match.ok
              THEN With(p1, "description", Strip(Group(block, desc_match, 1))) ELSE p1
        p3 == IF docs_match.ok
              THEN With(With(p2, "docs_url", Group(block, docs_match, 1)),
                        "docs_label", Group(block, docs_match, 2))
              ELSE p2
        p4 == IF file_match.ok
              THEN With(With(p3, "source_url", Group(block, file_match, 1)),
                        "source_file", Group(block, file_match, 2))
              ELSE p3
        p5 == IF code_match.ok
              THEN With(p4, "code",
                        Strip(unescape_html_entities(Group(block, code_match, 1))))
              ELSE p4
    IN  p5

\* 'for i in range(1, len(sections), 3)' from index n (0-based, as in the code).
RECURSIVE ExtractSections(_, _)
ExtractSections(parts, n) ==
    IF n >= Len(parts) \/ n + 2 >= Len(parts) THEN << >>
    ELSE
      LET pattern_blocks == FindAll1(BlockRe, parts[n + 3]) IN
      << [ section_id |-> parts[n + 1],
           section_name |-> parts[n + 2],
           patterns |-> [b \in 1..Len(pattern_blocks) |-> ExtractBlock(pattern_blocks[b])] ] >>
      \o ExtractSections(parts, n + 3)

extract_patterns_from_html(content) == ExtractSections(ReSplit2(H2Re, content), 1)

\* The lines generate_markdown appends before the table of contents.
MarkdownHead ==
    << "---",
       "title: Basecamp Rails Patterns - Campfire",
       "description: Real-world Ruby on Rails patterns from Basecamp's open-source Campfire chat application",
       "topics: rails, ruby, hotwire, turbo, stimulus, activerecord, actioncable, sqlite, patterns",
       "source: https://github.com/basecamp/once-campfire",
       "---",
       "",
       "# Basecamp Rails Patterns - Campfire",
       "",
       "Comprehensive guide extracted from Campfire open-source codebase. This is a production Rails 7 application built by Basecamp, showcasing modern Rails patterns with Hotwire, real-time features, and pragmatic architectural decisions.",
       "" >>

RECURSIVE SumLen(_)
SumLen(secs) == IF secs = << >> THEN 0 ELSE Len(secs[1].patterns) + SumLen(Tail(secs))

\* Concatenation of a sequence of sequences.
RECURSIVE Flatten(_)
Flatten(qs) == IF qs = << >> THEN << >> ELSE qs[1] \o Flatten(Tail(qs))

MarkdownToc(secs) ==
    << "## Table of Contents", "" >>
    \o [n \in 1..Len(secs) |->
          "- [" \o secs[n].section_name \o "](#" \o secs[n].section_id \o ") ("
          \o Str(Len(secs[n].patterns)) \o " patterns)"]
    \o << "", "**Total: " \o Str(SumLen(secs)) \o " patterns**", "" >>

\* The lines of one pattern; the caller has checked the keys it indexes.
MarkdownPattern(pattern) ==
    << "### " \o pattern["title"], "" >>
    \o (IF Has(pattern, "description") THEN << pattern["description"], "" >> ELSE << >>)
    \o (IF Has(pattern, "docs_url")
        THEN << "**Rails Docs:** [" \o pattern["docs_label"] \o "](" \o pattern["docs_url"] \o ")", "" >>
        ELSE << >>)
    \o (IF Has(pattern, "source_url") /\ Has(pattern, "source_file")
        THEN << "**Source:** [" \o pattern["source_file"] \o "](" \o pattern["source_url"] \o ")", "" >>
        ELSE << >>)
    \o (IF Has(pattern, "code")
        THEN << Fence \o "ruby", pattern["code"], Fence, "" >> ELSE << >>)

MarkdownSection(section) ==
    << "## " \o section.section_name, "" >>
    \o Flatten([k \in 1..Len(section.patterns) |-> MarkdownPattern(section.patterns[k])])

\* pattern['title'] or pattern['docs_label'] of a dict without that key.
RaisesKeyError(pattern) ==
    \/ ~Has(pattern, "title")
    \/ Has(pattern, "docs_url") /\ ~Has(pattern, "docs_label")

\* generate_markdown(patterns): the text, or the KeyError it raises.
generate_markdown(secs) ==
    IF \E n \in 1..Len(secs) : \E k \in 1..Len(secs[n].patterns) :
           RaisesKeyError(secs[n].patterns[k])
    THEN [ok |-> FALSE, error |-> "KeyError"]
    ELSE [ok |-> TRUE,
          text |-> Join(MarkdownHead \o MarkdownToc(secs)
                        \o Flatten([n \in 1..Len(secs) |-> MarkdownSection(secs[n])]),
                        "\n")]

-----------------------------------------------------------------------------
(* scripts/md_to_html.py: parse_markdown_file.                             *)

\* r'^---\s*\n(.*?)\n---\s*\n'
FrontmatterRe ==
    << Lit("---"), Star(In(Whitespace)), Lit("\n"), Open(1), LazyStar(AnyChar),
       Close(1), Lit("\n---"), Star(In(Whitespace)), Lit("\n") >>

\* yaml.safe_load(src), for the front matter the model reads.  PyYAML is no
\* part of the repository; the model knows the documents made of these lines:
\*   blank    spaces only
\*   comment  '#' after spaces
\*   pair     'key: value' from column 0, key a word, value a plain scalar
\*            that PyYAML resolves to a str
\*   item     '- value' from column 0, the value as in a pair
\*   nested   a pair whose value holds ': ' ("mapping values are not allowed
\*            here")
\*   tab      a tab before a letter ("found character '\t' that cannot start
\*            any token")
\* and yaml_safe_load is not defined for a document with any other line.
Letters == CharsOf(UpperCase) \cup CharsOf(LowerCase)

\* The plain scalars of these characters that PyYAML resolves to a bool or to
\* None, and the single letters it may resolve so.
YamlWords ==
    { "yes", "Yes", "YES", "no", "No", "NO", "true", "True", "TRUE", "false", "False",
      "FALSE", "on", "On", "ON", "off", "Off", "OFF", "null", "Null", "NULL",
      "y", "Y", "n", "N" }

StripSpaces(s) ==
    LET first == FirstOutside(In({" "}), s, 1, Len(s))
        last == LastOutside(In({" "}), s, 1, Len(s))
    IN  IF first = 0 THEN "" ELSE SubSeq(s, first, last)

YamlPlain(v) ==
    /\ v # "" /\ At(v, 1) \in Letters /\ At(v, Len(v)) # ":"
    /\ \A p \in 1..Len(v) :
          At(v, p) \in Letters \cup CharsOf(Digits) \cup {" ", "-", "_", ".", ",", "/", "'", ":"}
    /\ v \notin YamlWords

\* The key and the value of a line 'key: value'.
YamlPairKey(line) == SubSeq(line, 1, Find(line, ":", 1) - 1)
YamlPairValue(line) == StripSpaces(Drop(line, Find(line, ":", 1)))

YamlLineKind(line) ==
    LET first == FirstOutside(In({" "}), line, 1, Len(line))
        k == YamlPairKey(line)
    IN
    IF first = 0 THEN "blank"
    ELSE IF At(line, first) = "#" THEN "comment"
    ELSE IF /\ Find(line, ":", 1) > 1
            /\ At(k, 1) \in Letters \cup {"_"}
            /\ \A p \in 1..Len(k) : At(k, p) \in WordChars
            /\ k \notin YamlWords
            /\ HasAt(line, Find(line, ":", 1) + 1, " ")
            /\ YamlPlain(YamlPairValue(line))
         THEN (IF Contains(YamlPairValue(line), ": ") THEN "nested" ELSE "pair")
    ELSE IF /\ StartsWith(line, "- ")
            /\ YamlPlain(StripSpaces(Drop(line, 1)))
            /\ ~Contains(Drop(line, 1), ": ")
         THEN "item"
    ELSE IF StartsWith(line, "\t") /\ Len(line) > 1 /\ At(line, 2) \in Letters THEN "tab"
    ELSE "other"

\* The dict of the pair lines, a later value of a key taking the place of
\* the earlier one.
RECURSIVE YamlDict(_, _)
YamlDict(ls, n) ==
    IF n = 0 THEN EmptyDict
    ELSE IF YamlLineKind(ls[n]) = "pair"
         THEN With(YamlDict(ls, n - 1), YamlPairKey(ls[n]), YamlPairValue(ls[n]))
    ELSE YamlDict(ls, n - 1)

\* The list of the item lines.
RECURSIVE YamlList(_, _)
YamlList(ls, n) ==
    IF n = 0 THEN << >>
    ELSE IF YamlLineKind(ls[n]) = "item"
         THEN Append(YamlList(ls, n - 1), StripSpaces(Drop(ls[n], 1)))
    ELSE YamlList(ls, n - 1)

\* yaml.safe_load(src): the Python value the document stands for (a dict of
\* str values, None, or a list of str), or the error raised.
yaml_safe_load(src) ==
    LET ls == Split(src, "\n")
        kinds == { YamlLineKind(ls[n]) : n \in 1..Len(ls) }
    IN  CASE kinds \subseteq {"blank", "comment"} ->
               [ok |-> TRUE, value |-> [type |-> "NoneType"]]
          [] kinds \subseteq {"blank", "comment", "pair"} /\ "pair" \in kinds ->
               [ok |-> TRUE, value |-> [type |-> "dict", items |-> YamlDict(ls, Len(ls))]]
          [] kinds \subseteq {"blank", "comment", "item"} /\ "item" \in kinds ->
               [ok |-> TRUE, value |-> [type |-> "list", items |-> YamlList(ls, Len(ls))]]
          [] /\ kinds \subseteq {"blank", "comment", "pair", "nested", "tab"}
             /\ kinds \cap {"nested", "tab"} # {} ->
               [ok |-> FALSE, error |-> "ScannerError"]

\* parse_markdown_file on the text read: the front matter and the content
\* after it, or the error yaml.safe_load raises.
parse_markdown_file(text) ==
    LET frontmatter_match == Match(FrontmatterRe, text) IN
    IF ~frontmatter_match.ok
    THEN [ ok |-> TRUE, frontmatter |-> [type |-> "dict", items |-> EmptyDict], content |-> text ]
    ELSE LET loaded == yaml_safe_load(Group(text, frontmatter_match, 1)) IN
         IF loaded.ok
         THEN [ ok |-> TRUE, frontmatter |-> loaded.value,
                content |-> Drop(text, frontmatter_match.end - 1) ]
         ELSE [ ok |-> FALSE, error |-> loaded.error ]

-----------------------------------------------------------------------------
(* scripts/md_to_html.py: merge_sections, generate_html and main.          *)

\* A faulty variant of MergeInto in which a later source's patterns replace the
\* earlier ones of the same name.
MergeIntoReplacing(merged, name, pats) == DictSet(merged, name, pats)

\* The body of the inner loop of merge_sections:
\* 'if section_name not in merged: merged[section_name] = []', then extend.
MergeInto(merged, name, pats) ==
    LET m == IF DictHas(merged, name) THEN merged ELSE DictSet(merged, name, << >>)
    IN  DictSet(m, name, DictGet(m, name) \o pats)

\* 'for section_name, patterns in sections.items()' from entry n on.
RECURSIVE MergeOne(_, _, _)
MergeOne(merged, secs, n) ==
    IF n > Len(secs) THEN merged
    ELSE MergeOne(MergeInto(merged, secs[n].name, secs[n].patterns), secs, n + 1)

\* 'for sections in all_sections' from source n on.
RECURSIVE MergeAll(_, _, _)
MergeAll(merged, all, n) ==
    IF n > Len(all) THEN merged
    ELSE MergeAll(MergeOne(merged, all[n], 1), all, n + 1)

merge_sections(all) == MergeAll(<< >>, all, 1)

\* dict.get(key, default)
GetOr(d, key, default) == IF Has(d, key) THEN d[key] ELSE default

\* The fragment generate_html builds for one pattern.
PatternHtml(pattern) ==
    "<div class=\"pattern\" data-category=\"" \o pattern.category
    \o "\" data-keywords=\"" \o extract_keywords(pattern.description, pattern.name)
    \o "\" data-name=\"" \o Lower(pattern.name) \o "\">\n"
    \o "  <h3>" \o pattern.name \o "</h3>\n"
    \o "  <p>" \o pattern.description \o "</p>"
    \o (IF pattern.rails_docs # ""
        THEN "\n  <div class=\"docs\">Rails Docs: " \o pattern.rails_docs \o "</div>" ELSE "")
    \o (IF pattern.source # ""
        THEN "\n  <div class=\"file\">source: " \o pattern.source \o "</div>" ELSE "")
    \o (IF pattern.code # ""
        THEN "\n  <pre><code>" \o pattern.code
             \o "</code><button class=\"copy-btn\" onclick=\"copyCode(this)\">Copy</button></pre>"
        ELSE "")
    \o "\n</div>\n"

\* The entries generate_html appends to content_html for one section.
SectionHtml(section) ==
    IF section.patterns = << >> THEN << >>
    ELSE << "<h2 id=\"" \o categorize_pattern(section.name) \o "\">" \o section.name
            \o " (" \o Str(Len(section.patterns)) \o " patterns)</h2>" >>
         \o [k \in 1..Len(section.patterns) |-> PatternHtml(section.patterns[k])]

ContentHtml(secs) == Flatten([n \in 1..Len(secs) |-> SectionHtml(secs[n])])

RECURSIVE CountPatterns(_)
CountPatterns(secs) ==
    IF secs = << >> THEN 0 ELSE Len(secs[1].patterns) + CountPatterns(Tail(secs))

\* The five placeholders with their values, in the order generate_html
\* replaces them.
Substitutions(frontmatter, content, ts) ==
    << << "{{TITLE}}", GetOr(frontmatter, "title", "Ruby & Rails Patterns") >>,
       << "{{PROJECT_NAME}}", GetOr(frontmatter, "title", "Ruby & Rails Patterns") >>,
       << "{{DESCRIPTION}}", GetOr(frontmatter, "description", "") >>,
       << "{{CONTENT}}", content >>,
       << "{{TIMESTAMP}}", ts >> >>

\* text.replace(...) for each of subs in turn.
RECURSIVE ReplaceEach(_, _)
ReplaceEach(text, subs) ==
    IF subs = << >> THEN text
    ELSE ReplaceEach(Replace(text, subs[1][1], subs[1][2]), Tail(subs))

\* generate_html on the template read (None: open() raises), with ts what
\* datetime.now() formats to: the page it writes and the count it returns.
generate_html(secs, frontmatter, tmpl, ts) ==
    IF tmpl = None THEN [ok |-> FALSE, error |-> "FileNotFoundError"]
    ELSE [ ok |-> TRUE,
           html_output |-> ReplaceEach(tmpl[1],
                               Substitutions(frontmatter, Join(ContentHtml(secs), "\n"), ts)),
           total_patterns |-> CountPatterns(secs) ]

\* main's combined_frontmatter
combined_frontmatter ==
    ("title" :> "Ruby & Rails Patterns Collection")
    @@ ("description" :> "Production-ready patterns from Basecamp Campfire and 37signals Fizzy")

-----------------------------------------------------------------------------
(* Bounded inputs.                                                         *)

\* All sequences over S of length 0..n.
RECURSIVE SeqsUpTo(_, _)
SeqsUpTo(S, n) ==
    IF n = 0 THEN { << >> }
    ELSE LET shorter == SeqsUpTo(S, n - 1) IN
         shorter \cup { Append(q, x) : q \in { r \in shorter : Len(r) = n - 1 }, x \in S }

\* Section names are built from at most MaxFragments of these pieces.
MaxFragments == 2
CatNames(n) ==
    LET fragments ==
          { "User ", "Models", "MODEL", "Controllers Overview", "Frontend/",
            "Hotwire Tips", "Deployment Infrastructure", "Misc Notes", "mod", "el" }
    IN  { Join(fs, "") : fs \in SeqsUpTo(fragments, n) }

\* Pattern names and descriptions are built from these words.
MaxNameWords == 1
MaxDescWords == 2
KwWords == { "Cache", "the", "cache", "to", "a_1", "3des", "x-ray" }
KwInputs(n, d) ==
    { << Join(nw, " "), Join(dw, " ") >> :
        nw \in SeqsUpTo(KwWords, n), dw \in SeqsUpTo(KwWords, d) }
    \cup { << "Cache Pattern", "Uses the cache to speed up queries" >> }

\* Markdown bodies are at most MaxLines of these lines.
MaxLines == 4
ParseInputs(n) ==
    LET pool ==
          { "", "## Models", "## Views", "## Table of Contents", "## Tables",
            "### Soft Delete", "### Scopes", "Marks records as deleted",
            "**Rails Docs:** [Scopes](https://guides/scopes)",
            "**Source:** [app/models/user.rb](https://github/user.rb)",
            Fence \o "ruby", "scope :active, -> { where(a < 1) }", Fence }
    IN  SeqsUpTo(pool, n) \ { << >> }

\* HTML documents: an introduction, then at most MaxHtmlSections sections of
\* at most MaxBlocks pattern blocks each, then the page's footer.
MaxHtmlSections == 2
MaxBlocks == 2
HtmlSections(b) ==
    LET headers ==
          { "<h2 id=\"models\">Models</h2>\n", "<h2 id=\"controllers\">Controllers</h2>\n" }
        blocks ==
          { "<div class=\"pattern\">\n<h3>Scopes</h3>\n<p>Named queries</p>\n"
              \o "<div class=\"docs\"><a href=\"https://guides/scopes\" target=\"_blank\">Scopes</a></div>\n"
              \o "<div class=\"file\"><a href=\"https://github/user.rb\">app/models/user.rb</a></div>\n"
              \o "<pre><code>scope :recent, -&gt; { where(id &lt; 9) }</code></pre>\n</div>\n",
            "<div class=\"pattern\"><h3>Soft Delete</h3><p>Marks records as deleted</p>"
              \o "<pre><code>scope :active, -> { where(deleted_at: nil) }</code></pre></div>\n",
            "<div class=\"pattern\"><h3>Callbacks</h3></div>\n",
            "<div class=\"pattern\"><p>Untitled</p></div>\n",
            "<div class=\"pattern\"></div>\n" }
    IN  { h \o Join(bs, "") : h \in headers, bs \in SeqsUpTo(blocks, b) }
HtmlInputs(n, b) ==
    { "<h1>Guide</h1>\n" \o Join(secs, "") \o "<div class=\"generated\">Generated</div>\n" :
        secs \in SeqsUpTo(HtmlSections(b), n) }

\* Section lists given to generate_markdown: at most MaxRoundSections sections
\* of at most MaxRoundPatterns patterns, each pattern with a title.
MaxRoundSections == 2
MaxRoundPatterns == 2
RoundSections(k) ==
    LET written ==
          { ("title" :> "Callbacks"),
            ("title" :> "Soft Delete") @@ ("description" :> "Marks records as deleted"),
            ("title" :> "Scopes") @@ ("description" :> "**Named** queries")
              @@ ("docs_url" :> "https://guides/scopes") @@ ("docs_label" :> "Scopes")
              @@ ("source_url" :> "https://github/user.rb") @@ ("source_file" :> "app/models/user.rb")
              @@ ("code" :> "scope :recent, -> { where(id < 9) }"),
            ("title" :> "Counter") @@ ("code" :> "a && b") }
    IN  { [ section_id |-> Lower(name), section_name |-> name, patterns |-> ps ] :
            name \in { "Models", "Controllers" }, ps \in SeqsUpTo(written, k) }
RoundInputs(n, k) == SeqsUpTo(RoundSections(k), n)

\* Parsed files given to merge_sections: at most MaxSources of these dicts.
MaxSources == 3
Pat(name, section, desc) == [NewPattern(name, section) EXCEPT !.description = desc]
MergeInputs(n) ==
    LET sources ==
          { << >>,
            << [name |-> "Models", patterns |-> << Pat("Soft Delete", "Models", "") >>] >>,
            << [name |-> "Models", patterns |-> << Pat("Scopes", "Models", "Named queries") >>] >>,
            << [name |-> "Models", patterns |-> << Pat("Soft Delete", "Models", ""),
                                                  Pat("Scopes", "Models", "Named queries") >>],
               [name |-> "Views", patterns |-> << >>] >>,
            << [name |-> "Views", patterns |-> << Pat("Scopes", "Views", "Named queries") >>],
               [name |-> "Models", patterns |-> << Pat("Soft Delete", "Models", "") >>] >> }
    IN  SeqsUpTo(sources, n)

\* The Markdown files main reads: two that generate_markdown wrote, one
\* written by hand without front matter, one with an empty front matter, one
\* whose front matter is no YAML, and an empty one.
NumFiles == 2
MarkdownFiles ==
    { generate_markdown(<< [ section_id |-> "models", section_name |-> "Models",
                             patterns |-> << ("title" :> "Scopes")
                                 @@ ("description" :> "Named queries")
                                 @@ ("docs_url" :> "https://guides/scopes")
                                 @@ ("docs_label" :> "Scopes")
                                 @@ ("code" :> "where(id < 9)") >> ] >>).text,
      generate_markdown(<< [ section_id |-> "models", section_name |-> "Models",
                             patterns |-> << ("title" :> "Soft Delete")
                                 @@ ("description" :> "Marks records as deleted") >> ],
                           [ section_id |-> "controllers", section_name |-> "Controllers",
                             patterns |-> << ("title" :> "Callbacks") >> ] >>).text,
      "## Models\n\n### Stamps\n\nWrites {{TIMESTAMP}} under {{TITLE}}\n",
      "---\n\n---\n## Models\n### Stamps\n",
      "---\ntitle: Notes: draft\n---\n## Models\n### Stamps\n",
      "" }
Templates ==
    { "<title>{{TITLE}}</title>\n<h1>{{PROJECT_NAME}}</h1>\n<p>{{DESCRIPTION}}</p>\n"
        \o "{{CONTENT}}\n<footer>{{TIMESTAMP}}</footer>\n",
      "{{CONTENT}}",
      "<p>static</p>" }

-----------------------------------------------------------------------------
(* States in which a group of variables is not in use.                     *)

CatIdle == section_name = "" /\ category = None
KwIdle == pattern_name = "" /\ description = "" /\ keywords = None
ParseIdle ==
    /\ lines = << >> /\ i = 1 /\ sections = << >> /\ heap = << >>
    /\ current_section = None /\ current_pattern = 0
AIdle == html_content = "" /\ patterns = << >> /\ markdown = None /\ parsed = None
BIdle ==
    /\ pattern_files = << >> /\ template = None /\ timestamp = "" /\ output = << >>
    /\ md_index = 1 /\ handled = << >> /\ all_sections = << >>
    /\ merged_sections = << >> /\ total_patterns = 0

-----------------------------------------------------------------------------
(* SpecCat: categorize_pattern applied to a section name.                  *)

InitCat ==
    /\ pc = "categorize"
    /\ section_name \in CatNames(MaxFragments) /\ category = None
    /\ KwIdle /\ ParseIdle /\ AIdle /\ BIdle

Categorize ==
    /\ pc = "categorize"
    /\ category' = Some(categorize_pattern(section_name))
    /\ pc' = "categorized"
    /\ UNCHANGED << section_name, kwVars, parseVars, aVars, bVars >>

NextCat == Categorize
SpecCat == InitCat /\ [][NextCat]_vars

(* SpecKw: extract_keywords applied to a name and a description.           *)

InitKw ==
    /\ pc = "keywords"
    /\ \E in \in KwInputs(MaxNameWords, MaxDescWords) : pattern_name = in[1] /\ description = in[2]
    /\ keywords = None
    /\ CatIdle /\ ParseIdle /\ AIdle /\ BIdle

ExtractKeywords ==
    /\ pc = "keywords"
    /\ keywords' = Some(extract_keywords(description, pattern_name))
    /\ pc' = "keyworded"
    /\ UNCHANGED << pattern_name, description, catVars, parseVars, aVars, bVars >>

NextKw == ExtractKeywords
SpecKw == InitKw /\ [][NextKw]_vars

(* SpecParse: parse_patterns, one loop iteration per step, on a Markdown    *)
(* body of a few lines.                                                    *)

ParseState ==
    [ lines |-> lines, i |-> i, sections |-> sections, heap |-> heap,
      current_section |-> current_section, current_pattern |-> current_pattern ]

InitParse ==
    /\ pc = "parse"
    /\ \E ls \in ParseInputs(MaxLines) : lines = Split(Join(ls, "\n"), "\n")
    /\ i = 1 /\ sections = << >> /\ heap = << >>
    /\ current_section = None /\ current_pattern = 0
    /\ CatIdle /\ KwIdle /\ AIdle /\ BIdle

ParseStep ==
    /\ pc = "parse" /\ i <= Len(lines)
    /\ LET st == parse_step(ParseState) IN
        /\ i' = st.i
        /\ sections' = st.sections
        /\ heap' = st.heap
        /\ current_section' = st.current_section
        /\ current_pattern' = st.current_pattern
    /\ UNCHANGED << pc, lines, catVars, kwVars, aVars, bVars >>

ParseReturn ==
    /\ pc = "parse" /\ i > Len(lines)
    /\ parsed' = Some(ParseResult(ParseState))
    /\ pc' = "parsed"
    /\ UNCHANGED << parseVars, catVars, kwVars, bVars, html_content, patterns, markdown >>

NextParse == ParseStep \/ ParseReturn
SpecParse == InitParse /\ [][NextParse]_vars

(* SpecA: main of convert_html_to_md.py on an HTML document.               *)

InitA ==
    /\ pc = "extract"
    /\ html_content \in HtmlInputs(MaxHtmlSections, MaxBlocks)
    /\ patterns = << >> /\ markdown = None /\ parsed = None
    /\ CatIdle /\ KwIdle /\ ParseIdle /\ BIdle

\* patterns = extract_patterns_from_html(html_content)
Extract ==
    /\ pc = "extract"
    /\ patterns' = extract_patterns_from_html(html_content)
    /\ pc' = "generate"
    /\ UNCHANGED << html_content, markdown, parsed, catVars, kwVars, parseVars, bVars >>

\* markdown = generate_markdown(patterns), written to the output path; a
\* KeyError ends the run before anything is written.
Generate ==
    /\ pc = "generate"
    /\ LET md == generate_markdown(patterns) IN
         IF md.ok THEN markdown' = Some(md.text) /\ pc' = "written"
         ELSE markdown' = markdown /\ pc' = "raised"
    /\ UNCHANGED << html_content, patterns, parsed, catVars, kwVars, parseVars, bVars >>

NextA == Extract \/ Generate
SpecA == InitA /\ [][NextA]_vars

(* SpecRound: generate_markdown on a section list, then parse_markdown_file *)
(* and parse_patterns of md_to_html.py on the Markdown it wrote.           *)

InitRound ==
    /\ pc = "generate"
    /\ patterns \in RoundInputs(MaxRoundSections, MaxRoundPatterns)
    /\ html_content = "" /\ markdown = None /\ parsed = None
    /\ CatIdle /\ KwIdle /\ ParseIdle /\ BIdle

ParseBack ==
    /\ pc = "written"
    /\ parsed' = Some(parse_patterns(parse_markdown_file(markdown[1]).content))
    /\ pc' = "reparsed"
    /\ UNCHANGED << html_content, patterns, markdown, catVars, kwVars, parseVars, bVars >>

NextRound == Generate \/ ParseBack
SpecRound == InitRound /\ [][NextRound]_vars

(* Spec: main of md_to_html.py on its input files and its template.        *)

Init ==
    /\ pc = "files"
    /\ pattern_files \in [1..NumFiles -> {None} \cup { Some(f) : f \in MarkdownFiles }]
    /\ template \in {None} \cup { Some(t) : t \in Templates }
    /\ timestamp \in { "2025-01-02 03:04:05 UTC" }
    /\ output = << >> /\ md_index = 1 /\ handled = << >> /\ all_sections = << >>
    /\ merged_sections = << >> /\ total_patterns = 0
    /\ CatIdle /\ KwIdle /\ ParseIdle /\ AIdle

\* 'if not md_path.exists(): ... continue'
MainSkip ==
    /\ pc = "files" /\ md_index <= Len(pattern_files)
    /\ pattern_files[md_index] = None
    /\ handled' = Append(handled, "skipped")
    /\ md_index' = md_index + 1
    /\ UNCHANGED << pc, pattern_files, template, timestamp, output, all_sections,
                    merged_sections, total_patterns, catVars, kwVars, parseVars, aVars >>

\* The rest of the loop body: parse the file and append its sections.  The
\* run ends here when yaml.safe_load raises, and when the front matter is no
\* dict: 'frontmatter.get' then raises AttributeError.
MainProcess ==
    /\ pc = "files" /\ md_index <= Len(pattern_files)
    /\ pattern_files[md_index] # None
    /\ LET file == parse_markdown_file(pattern_files[md_index][1]) IN
         IF file.ok /\ file.frontmatter.type = "dict"
         THEN /\ all_sections' = Append(all_sections, parse_patterns(file.content))
              /\ handled' = Append(handled, "parsed")
              /\ md_index' = md_index + 1
              /\ pc' = pc
         ELSE /\ pc' = "raised"
              /\ UNCHANGED << all_sections, handled, md_index >>
    /\ UNCHANGED << pattern_files, template, timestamp, output,
                    merged_sections, total_patterns, catVars, kwVars, parseVars, aVars >>

\* merged_sections = merge_sections(all_sections)
MainMerge ==
    /\ pc = "files" /\ md_index > Len(pattern_files)
    /\ merged_sections' = merge_sections(all_sections)
    /\ pc' = "generate_html"
    /\ UNCHANGED << pattern_files, template, timestamp, output, md_index, handled,
                    all_sections, total_patterns, catVars, kwVars, parseVars, aVars >>

\* total_patterns = generate_html(merged_sections, combined_frontmatter, ...):
\* reads the template, which ends the run when it cannot be read, and
\* writes the page.
MainGenerateHtml ==
    /\ pc = "generate_html"
    /\ LET r == generate_html(merged_sections, combined_frontmatter, template, timestamp) IN
         IF r.ok
         THEN /\ output' = Append(output, r.html_output)
              /\ total_patterns' = r.total_patterns
              /\ pc' = "done"
         ELSE /\ UNCHANGED << output, total_patterns >>
              /\ pc' = "aborted"
    /\ UNCHANGED << pattern_files, template, timestamp, md_index, handled,
                    all_sections, merged_sections, catVars, kwVars, parseVars, aVars >>

Next == MainSkip \/ MainProcess \/ MainMerge \/ MainGenerateHtml
Spec == Init /\ [][Next]_vars

(* SpecMerge: merge_sections on a list of parsed files.                    *)

InitMerge ==
    /\ pc = "files"
    /\ all_sections \in MergeInputs(MaxSources)
    /\ pattern_files = [n \in 1..Len(all_sections) |-> Some("")]
    /\ md_index = Len(all_sections) + 1
    /\ handled = [n \in 1..Len(all_sections) |-> "parsed"]
    /\ template = None /\ timestamp = "" /\ output = << >>
    /\ merged_sections = << >> /\ total_patterns = 0
    /\ CatIdle /\ KwIdle /\ ParseIdle /\ AIdle

NextMerge == MainMerge
SpecMerge == InitMerge /\ [][NextMerge]_vars

-----------------------------------------------------------------------------
(* The claims.                                                             *)

\* kw occurs in s, letter case ignored.
ContainsIgnoringCase(s, kw) ==
    \E p \in 1..(Len(s) - Len(kw) + 1) :
        \A q \in 1..Len(kw) : LowerChar(At(s, p + q - 1)) = At(kw, q)

CategorySlugs == << "models", "controllers", "frontend", "infrastructure" >>
CategoryKeywords == << {"model"}, {"controller"}, {"frontend", "hotwire"}, {"infrastructure"} >>
MatchesCategory(name, n) == \E kw \in CategoryKeywords[n] : ContainsIgnoringCase(name, kw)

\* C4: categorize_pattern maps every section name to exactly one of models,
\* controllers, frontend, infrastructure, other: to the first of the four
\* categories, in that order, one of whose keywords occurs in the name with
\* letter case ignored, and to other when none does; so the five names of the
\* spec's examples map as the spec says.
C4_CategoryPriority ==
    pc = "categorized" =>
        /\ category[1] \in SeqRange(CategorySlugs) \cup {"other"}
        /\ \A n \in 1..Len(CategorySlugs) :
              category[1] = CategorySlugs[n]
                  <=> /\ MatchesCategory(section_name, n)
                      /\ \A m \in 1..(n - 1) : ~MatchesCategory(section_name, m)
        /\ category[1] = "other"
              <=> \A n \in 1..Len(CategorySlugs) : ~MatchesCategory(section_name, n)
        /\ section_name = "User Models" => category[1] = "models"
        /\ section_name = "Controllers Overview" => category[1] = "controllers"
        /\ section_name = "Frontend/Hotwire Tips" => category[1] = "frontend"
        /\ section_name = "Deployment Infrastructure" => category[1] = "infrastructure"
        /\ section_name = "Misc Notes" => category[1] = "other"

\* A name that holds the keywords of two categories has been categorized.
C4_Witness ==
    /\ pc = "categorized"
    /\ MatchesCategory(section_name, 1) /\ MatchesCategory(section_name, 2)
    /\ category = Some("models")

\* The words ws with those at a and b exchanged.
SwapWords(ws, a, b) ==
    [n \in 1..Len(ws) |-> IF n = a THEN ws[b] ELSE IF n = b THEN ws[a] ELSE ws[n]]

\* C3: the string extract_keywords returns is a list of tokens separated by
\* single spaces, strictly ascending in code point order; none of them is
\* shorter than 3 characters or a stopword; every other token of the
\* lowercased 'name description' is among them; and exchanging any two words
\* of the input (which generates every permutation) leaves it unchanged.
C3_Keywords ==
    pc = "keyworded" =>
        LET text == Lower(pattern_name \o " " \o description)
            tokens == SeqRange(KeywordWords(text))
            out == IF keywords[1] = "" THEN << >> ELSE Split(keywords[1], " ")
            ws == Split(pattern_name \o " " \o description, " ")
            cut == Len(Split(pattern_name, " "))
        IN  /\ \A a \in 1..(Len(out) - 1) : StrLess(out[a], out[a + 1])
            /\ \A a \in 1..Len(out) : Len(out[a]) > 2 /\ out[a] \notin common_words
            /\ SeqRange(out) = { t \in tokens : Len(t) > 2 /\ t \notin common_words }
            /\ \A a, b \in 1..Len(ws) :
                  a < b =>
                    LET sw == SwapWords(ws, a, b) IN
                    extract_keywords(Join(SubSeq(sw, cut + 1, Len(sw)), " "),
                                     Join(SubSeq(sw, 1, cut), " ")) = keywords[1]

\* The spec's example has been indexed: stopwords and short words are gone,
\* the duplicate 'cache' occurs once, the rest is sorted.
C3_Witness ==
    /\ pc = "keyworded"
    /\ pattern_name = "Cache Pattern"
    /\ description = "Uses the cache to speed up queries"
    /\ keywords = Some("cache pattern queries speed")

\* The patterns the sources hold under name, concatenated in source order.
PatternsUnder(all, name) ==
    Flatten([n \in 1..Len(all) |->
                IF DictHas(all[n], name) THEN DictGet(all[n], name) ELSE << >>])

SectionNames(all) == UNION { SeqRange(DictKeys(all[n])) : n \in 1..Len(all) }

RECURSIVE CountAll(_)
CountAll(all) == IF all = << >> THEN 0 ELSE CountPatterns(all[1]) + CountAll(Tail(all))

\* C2: after merge_sections the merged dict has exactly the section names of
\* the sources, each once, and under each name the concatenation, in the
\* order of the sources, of the pattern lists the sources hold under it:
\* nothing dropped, duplicated or reordered, so that the merged patterns are as
\* many as those of all sources together.
C2_MergeConcatenates ==
    pc = "generate_html" =>
        /\ SeqRange(DictKeys(merged_sections)) = SectionNames(all_sections)
        /\ \A a, b \in 1..Len(merged_sections) :
              merged_sections[a].name = merged_sections[b].name => a = b
        /\ \A n \in 1..Len(merged_sections) :
              merged_sections[n].patterns
                  = PatternsUnder(all_sections, merged_sections[n].name)
        /\ CountPatterns(merged_sections) = CountAll(all_sections)

\* Two sources held patterns under one name, one of them a pattern the other
\* holds too, and the merge kept them all.
C2_Witness ==
    /\ pc = "generate_html"
    /\ \E n \in 1..Len(merged_sections) :
         LET name == merged_sections[n].name
             ps == merged_sections[n].patterns
         IN  /\ Cardinality({ k \in 1..Len(all_sections) :
                     DictHas(all_sections[k], name)
                     /\ DictGet(all_sections[k], name) # << >> }) >= 2
             /\ \E a, b \in 1..Len(ps) : a # b /\ ps[a] = ps[b]

\* What parse_patterns returns for input file n.
ParsedFile(n) == parse_patterns(parse_markdown_file(pattern_files[n][1]).content)

\* The parsed files among the first n input files, in their order.
RECURSIVE ParsedPrefix(_)
ParsedPrefix(n) ==
    IF n = 0 THEN << >>
    ELSE ParsedPrefix(n - 1)
         \o (IF pattern_files[n] = None THEN << >> ELSE << ParsedFile(n) >>)

\* C7: in every state of a run of main the files before md_index, and only
\* they, have been handled, in the order supplied, a missing one skipped and an
\* existing one parsed and appended, and the run goes on to the next file; the
\* merge and generate_html come only after all files; the page is written at
\* most once, only by a run that has read the template and handled every
\* file; and a run whose template cannot be read ends aborted with nothing
\* written.
C7_MainRun ==
    /\ pc \in {"files", "generate_html", "done", "aborted"}
    /\ md_index \in 1..(NumFiles + 1)
    /\ handled = [k \in 1..(md_index - 1) |->
                     IF pattern_files[k] = None THEN "skipped" ELSE "parsed"]
    /\ all_sections = ParsedPrefix(md_index - 1)
    /\ pc \in {"generate_html", "done", "aborted"} =>
          /\ md_index = NumFiles + 1
          /\ merged_sections = merge_sections(ParsedPrefix(NumFiles))
    /\ Len(output) <= 1
    /\ output # << >> <=> pc = "done"
    /\ pc = "done" => template # None
    /\ pc = "aborted" => template = None

\* What the round trip is to give for the pattern dict p of pipeline A.
RoundTripOf(p, cat) ==
    [ name |-> p["title"],
      description |-> GetOr(p, "description", ""),
      rails_docs |-> IF Has(p, "docs_url") THEN Anchor(p["docs_url"], p["docs_label"]) ELSE "",
      source |-> IF Has(p, "source_url") THEN Anchor(p["source_url"], p["source_file"]) ELSE "",
      code |-> IF Has(p, "code") THEN html_escape(p["code"]) ELSE "",
      category |-> cat ]

\* C1: parse_patterns of the body of generate_markdown(S) has the section
\* names of S in the same order and in each section as many patterns in the
\* same order, each with the same title, description, docs link and source
\* link and with the HTML-escaped code.
C1_RoundTrip ==
    pc = "reparsed" =>
        /\ Len(parsed[1]) = Len(patterns)
        /\ \A n \in 1..Len(patterns) :
              n <= Len(parsed[1]) =>
                /\ parsed[1][n].name = patterns[n].section_name
                /\ Len(parsed[1][n].patterns) = Len(patterns[n].patterns)
                /\ \A k \in 1..Len(patterns[n].patterns) :
                      k <= Len(parsed[1][n].patterns) =>
                        parsed[1][n].patterns[k]
                          = RoundTripOf(patterns[n].patterns[k],
                                        parsed[1][n].patterns[k].category)

\* How many lines of the Markdown written start with prefix.
CountLines(prefix) ==
    Cardinality({ n \in 1..Len(Split(markdown[1], "\n")) :
                    StartsWith(Split(markdown[1], "\n")[n], prefix) })

\* How many extracted patterns have the key.
CountWith(key) ==
    Cardinality({ << n, k >> \in (1..Len(patterns)) \X (1..(MaxBlocks + 1)) :
                    k <= Len(patterns[n].patterns) /\ Has(patterns[n].patterns[k], key) })

\* C5: whichever fields of a pattern block fail to match, the run of pipeline A
\* never ends in an error, and the Markdown it writes has a docs line, a
\* source line and a code block only for the patterns that have the field.
C5_MissingFieldsNotFatal ==
    /\ pc # "raised"
    /\ pc = "written" =>
          /\ CountLines("**Rails Docs:**") = CountWith("docs_url")
          /\ CountLines("**Source:**") = CountWith("source_url")
          /\ CountLines(Fence \o "ruby") = CountWith("code")

\* The permutations of 1..n.
Orders(n) == { f \in [1..n -> 1..n] : \A a, b \in 1..n : f[a] = f[b] => a = b }

\* C6: the page generate_html writes is the one every order of the five
\* replacements gives.
C6_OrderIndependent ==
    pc = "done" =>
        LET subs == Substitutions(combined_frontmatter,
                                  Join(ContentHtml(merged_sections), "\n"), timestamp)
        IN  \A f \in Orders(Len(subs)) :
               ReplaceEach(template[1], [n \in 1..Len(subs) |-> subs[f[n]]]) = output[1]

\* An H2 line, and the table-of-contents header among them.
IsH2(line) == StartsWith(line, "## ")
IsH3(line) == StartsWith(line, "### ")
IsTocHeader(line) == Strip(line) = "## Table of Contents"

\* Line k lies inside a fenced block: an odd number of fence lines precede it.
InFence(k) == Cardinality({ n \in 1..(k - 1) : StartsWith(lines[n], Fence) }) % 2 = 1

\* C8: in what parse_patterns returns, every H2 line other than the
\* table-of-contents header has its section, and every H3 line that follows
\* it before the next H2 line (outside code fences) is a pattern of that
\* section, with the category of the section's name.
C8_HeadersOpenSections ==
    pc = "parsed" =>
        \A h \in 1..Len(lines) :
            (IsH2(lines[h]) /\ ~IsTocHeader(lines[h]) /\ ~InFence(h)) =>
                LET name == Strip(Drop(lines[h], 3)) IN
                /\ DictHas(parsed[1], name)
                /\ \A k \in (h + 1)..Len(lines) :
                      ( /\ IsH3(lines[k]) /\ ~InFence(k)
                        /\ \A n \in (h + 1)..(k - 1) : ~IsH2(lines[n]) ) =>
                          \E q \in 1..Len(DictGet(parsed[1], name)) :
                              /\ DictGet(parsed[1], name)[q].name = Strip(Drop(lines[k], 4))
                              /\ DictGet(parsed[1], name)[q].category = categorize_pattern(name)

\* C9: no step of parse_patterns removes a section or a pattern of a section:
\* every section stays, and its pattern list only grows at its end.
C9_AppendOnly ==
    [][ \A n \in 1..Len(sections) :
            /\ DictHas(sections', sections[n].name)
            /\ Len(DictGet(sections', sections[n].name)) >= Len(sections[n].patterns)
            /\ SubSeq(DictGet(sections', sections[n].name), 1, Len(sections[n].patterns))
                  = sections[n].patterns ]_vars

\* Line n follows a section's H2 line with no header line between them, and is
\* no header.
BeforeFirstPattern(n) ==
    /\ ~IsH2(lines[n]) /\ ~IsH3(lines[n])
    /\ \E h \in 1..(n - 1) :
          IsSectionHeader(lines[h]) /\ \A k \in (h + 1)..(n - 1) : ~IsH2(lines[k]) /\ ~IsH3(lines[k])

\* C10: a step of parse_patterns on a line between an H2 header and the first
\* H3 header after it changes no pattern.
C10_HeaderEndsPattern ==
    [][ (pc = "parse" /\ i <= Len(lines) /\ BeforeFirstPattern(i)) => heap' = heap ]_vars

=============================================================================
